---- MODULE Spec2Model ----
(***************************************************************************)
(* Verification model of the rdp-rs protocol core:                         *)
(*   - core/license.rs  : the licensing accept/reject automaton            *)
(*   - codec/rle.rs     : 16-bpp RLE/FOM decoder, 32-bpp plane decoder,    *)
(*                        RGB565 -> RGB32 expansion                        *)
(*   - model/unicode.rs : UTF-16LE string conversion                       *)
(*   - core/gcc.rs      : GCC conference-create response decoding and      *)
(*                        request encoding                                 *)
(*   - bin/mstsc-rs.rs  : the reader thread and the UI loop of the client, *)
(*                        fast_bitmap_transfer, the keyboard block         *)
(* Each component has its own specification (SpecLicense, SpecRle16, ...)  *)
(* over the shared variable list; the variables of the components that a   *)
(* specification does not exercise stay at their idle values.              *)
(***************************************************************************)
EXTENDS Integers, Sequences, FiniteSets, TLC

VARIABLES
    \* ---- core/license.rs : client_connect ----
    licIn,            \* parameters the server stream was built from
    licStream,        \* s: the bytes the server sent
    licPos,           \* read position in s
    licPc,            \* position inside client_connect
    license_message,  \* the preamble component after read
    licPayload,       \* value returned by parse_payload
    licResult,        \* value returned by client_connect
    \* ---- codec/rle.rs : rle_16_decompress ----
    width,            \* width argument
    height0,          \* height argument as passed (output holds width * height0 pixels)
    height,           \* mut height: rows not yet started
    inputLeft,        \* input.len() - input_cursor.position()
    output,           \* output: &mut [u16], indexed from 0
    lastopcode, insertmix, x, prevline, line, colour1, colour2, mix, mask, bicolour,
    fom_mask, opcode, count, mixmask,
    unroll,           \* statements left in the current pass of the unrolled loop of repeat!
    runStart,         \* history: pixels emitted before the current run's opcode was decoded
    runCount,         \* history: count of the current run as decoded (after line 175)
    runPrev,          \* history: for a background run, lastopcode when its opcode
                      \* was decoded; 255 for the other runs
    runCode,          \* history: the code byte of the current run (line 142)
    r16Pc,            \* position inside rle_16_decompress
    r16Result,        \* value returned by rle_16_decompress
    \* ---- codec/rle.rs : rle_32_decompress / process_plane ----
    pixels32,         \* the image the input was encoded from
    input32,          \* input: &[u8]
    cursor32,         \* input_cursor.position()
    width32, height32,
    output32,         \* output: &mut [u8], indexed from 0
    initial32,        \* contents of output at the call
    plane,            \* number of process_plane calls made so far
    last_line, indexh, out, this_line, indexw, color,
    r32Pc,            \* position inside rle_32_decompress / process_plane
    r32Result,        \* value returned by rle_32_decompress
    \* ---- codec/rle.rs : rgb565torgb32 ----
    rgbInput,         \* input: &[u16]
    rgbNext,          \* number of pixels the iterator has yielded
    rgbOutput,        \* output: Vec<u8>
    rgbPc,
    \* ---- model/unicode.rs : to_utf16_le ----
    uniStr,           \* self: the chars (Unicode scalar values) of the string
    uniNext,          \* number of chars encode_utf16 has consumed
    uniOut,           \* the bytes collected so far
    uniPc,
    \* ---- core/gcc.rs : read_conference_create_response ----
    gccBlocks,        \* the blocks the server put after the H.221 key
    gccPer,           \* outcome of the PER reads of lines 343-354
    cc_response,      \* the bytes of cc_response after the user-data length
    length,           \* value of per::read_length at line 354
    gccPos,           \* bytes of sub read so far
    result,           \* result: the decoded component per block type
    gccPc,
    gccRet,           \* value returned by read_conference_create_response
    \* ---- core/gcc.rs : write_conference_create_request ----
    user_data,        \* the user_data argument: its length and its identity
    ccRequest,        \* result: the PER items written so far
    ccrPc,
    ccrRet,           \* value returned by write_conference_create_request
    \* ---- bin/mstsc-rs.rs : main, launch_rdp_thread, main_gui_loop ----
    sync,             \* the AtomicBool shared by the two threads
    rdp_client,       \* owner of the Mutex around the RdpClient
    session,          \* "connected", or "shutdown" once shutdown() has run
    bitmap_channel,   \* bitmaps sent and not yet received
    senderAlive,      \* bitmap_channel (the Sender) not yet dropped
    receiverAlive,    \* bitmap_receiver not yet dropped
    socket,           \* PDUs that arrived on the stream and are not yet read
    sent,             \* number of PDUs the server has sent
    peerClosed,       \* the server closed the connection (end of stream)
    rdpPc,            \* position of the thread of launch_rdp_thread
    lastRead,         \* outcome of its latest guard.read(..)
    guiPc,            \* position of main_gui_loop
    windowOpen,       \* window.is_open()
    lastTransfer,     \* outcome of the latest fast_bitmap_transfer
    mainPc,           \* position of main
    received,         \* ids of the bitmaps the callback was given, in order
    applied,          \* ids of the bitmaps given to fast_bitmap_transfer, in order
    \* ---- bin/mstsc-rs.rs : fast_bitmap_transfer ----
    bitmapEvent,      \* bitmap: the rectangle, the source width, the decompressed length
    frameBuffer,      \* buffer: per pixel, 0 or 1 + the index of the data pixel copied there
    copied,           \* history: the copy_nonoverlapping calls made
    transferRow,      \* i of the for loop
    transferPc,
    transferResult,   \* value returned by fast_bitmap_transfer
    \* ---- bin/mstsc-rs.rs : the keyboard block of main_gui_loop ----
    keys,             \* keys: what window.get_keys() returned in the latest frame
    last_keys,        \* last_keys
    keysDown,         \* history: keys whose latest event written is a key-down
    keyWrites,        \* the events the latest frame wrote, in order
    keyPc

licVars == <<licIn, licStream, licPos, licPc, license_message, licPayload, licResult>>

r16Vars == <<width, height0, height, inputLeft, output, lastopcode, insertmix, x, prevline,
             line, colour1, colour2, mix, mask, bicolour, fom_mask, opcode, count, mixmask,
             unroll, runStart, runCount, runPrev, runCode, r16Pc, r16Result>>

r32Vars == <<pixels32, input32, cursor32, width32, height32, output32, initial32, plane,
             last_line, indexh, out, this_line, indexw, color, r32Pc, r32Result>>

rgbVars == <<rgbInput, rgbNext, rgbOutput, rgbPc>>

uniVars == <<uniStr, uniNext, uniOut, uniPc>>

gccVars == <<gccBlocks, gccPer, cc_response, length, gccPos, result, gccPc, gccRet>>

ccrVars == <<user_data, ccRequest, ccrPc, ccrRet>>

mstscVars == <<sync, rdp_client, session, bitmap_channel, senderAlive, receiverAlive,
               socket, sent, peerClosed, rdpPc, lastRead, guiPc, windowOpen,
               lastTransfer, mainPc, received, applied>>

transferVars == <<bitmapEvent, frameBuffer, copied, transferRow, transferPc, transferResult>>

keyVars == <<keys, last_keys, keysDown, keyWrites, keyPc>>

vars == <<licVars, r16Vars, r32Vars, rgbVars, uniVars, gccVars, ccrVars, mstscVars,
          transferVars, keyVars>>

\* what the steps of one component leave alone: the other components
licFrame == <<r16Vars, r32Vars, rgbVars, uniVars, gccVars, ccrVars, mstscVars, transferVars, keyVars>>
r16Frame == <<licVars, r32Vars, rgbVars, uniVars, gccVars, ccrVars, mstscVars, transferVars, keyVars>>
r32Frame == <<licVars, r16Vars, rgbVars, uniVars, gccVars, ccrVars, mstscVars, transferVars, keyVars>>
rgbFrame == <<licVars, r16Vars, r32Vars, uniVars, gccVars, ccrVars, mstscVars, transferVars, keyVars>>
uniFrame == <<licVars, r16Vars, r32Vars, rgbVars, gccVars, ccrVars, mstscVars, transferVars, keyVars>>
gccFrame == <<licVars, r16Vars, r32Vars, rgbVars, uniVars, ccrVars, mstscVars, transferVars, keyVars>>
ccrFrame == <<licVars, r16Vars, r32Vars, rgbVars, uniVars, gccVars, mstscVars, transferVars, keyVars>>
mstscFrame == <<licVars, r16Vars, r32Vars, rgbVars, uniVars, gccVars, ccrVars,
                transferVars, keyVars>>
transferFrame == <<licVars, r16Vars, r32Vars, rgbVars, uniVars, gccVars, ccrVars,
                   mstscVars, keyVars>>
keyFrame == <<licVars, r16Vars, r32Vars, rgbVars, uniVars, gccVars, ccrVars,
              mstscVars, transferVars>>

(***************************************************************************)
(* Integer helpers: fixed-width little-endian fields                       *)
(***************************************************************************)
Byte == 0..255

U16LE(v) == <<v % 256, (v \div 256) % 256>>

U32LE(v) == <<v % 256, (v \div 256) % 256, (v \div 65536) % 256, (v \div 16777216) % 256>>

FromU16LE(s, p) == s[p] + 256 * s[p + 1]

FromU32LE(s, p) == s[p] + 256 * s[p + 1] + 65536 * s[p + 2] + 16777216 * s[p + 3]

Take(s, n) == SubSeq(s, 1, IF n < Len(s) THEN n ELSE Len(s))

Zeros(n) == [i \in 1..n |-> 0]

(***************************************************************************)
(* core/license.rs                                                         *)
(***************************************************************************)
\* enum Preamble::Version30

Version30 == 3

\* enum MessageType (the values TryFromPrimitive accepts)
MessageTypeValues == {1, 2, 3, 4, 18, 19, 21, 255}
MT_NewLicense == 3
MT_ErrorAlert == 255

\* enum ErrorCode
ErrorCodeValues == {1, 2, 3, 4, 6, 7, 8, 11, 12}
StatusValidClient == 7

\* enum StateTransition
StateTransitionValues == {1, 2, 3, 4}
TotalAbort == 1
NoTransition == 2
ResetPhaseToStart == 3
ResendLastMessage == 4

\* Results of client_connect.  "Ok" is Ok(()); the RdpErrorKind names are
\* the kinds built in license.rs; "Io" is the error of a read past the end
\* of the stream; "TryFromPrimitive" is the error of a failed enum
\* conversion (try_from(..)?); "panic" is an abort of the thread.
LicErrorResults == {"InvalidConst", "InvalidRespond", "NotImplemented", "Io", "TryFromPrimitive"}

\* ---- bounds of the explored server streams ----
MaxBlobLen == 1

LicMsgTypes == {1, 3, 4, 21, 255, 0, 5}
LicFlags == {3, 2}
LicErrorCodes == {1, 3, 7, 8, 12, 0, 5}
LicTransitions == {1, 2, 3, 4, 0, 5}
LicShortSizes == {0, 3}
LicBodyCuts == {0, 4, 8, 10, 12}

\* wire form of licensing_error_message(): dwErrorCode, dwStateTransition,
\* blob = (wBlobType, wBlobLen, blobData)
LicErrorBody(ec, st, bl) == U32LE(ec) \o U32LE(st) \o U16LE(0) \o U16LE(bl) \o Zeros(bl)

\* wire form of preamble(): bMsgtype, flag, wMsgSize, message
LicPreambleBytes(t, f, size, body) == <<t, f>> \o U16LE(size) \o body

LicIdle ==
    /\ licIn = [t |-> 0, f |-> 0, size |-> 0, ec |-> 0, st |-> 0, bl |-> 0, n |-> 0, drop |-> 0]
    /\ licStream = <<>>
    /\ licPos = 0
    /\ licPc = "idle"
    /\ license_message = [bMsgtype |-> 0, wMsgSize |-> 0, message |-> <<>>]
    /\ licPayload = [kind |-> "none"]
    /\ licResult = "pending"

LicInit ==
    \E t \in LicMsgTypes, f \in LicFlags, ec \in LicErrorCodes, st \in LicTransitions,
       bl \in 0..MaxBlobLen, drop \in {0, 1} :
      \E n \in LicBodyCuts \cup {12 + bl} :
        \E size \in LicShortSizes \cup {4 + n} :
          LET body == Take(LicErrorBody(ec, st, bl), n)
              full == LicPreambleBytes(t, f, size, body)
          IN /\ licIn = [t |-> t, f |-> f, size |-> size, ec |-> ec, st |-> st,
                         bl |-> bl, n |-> n, drop |-> drop]
             /\ licStream = Take(full, Len(full) - drop)
             /\ licPos = 0
             /\ licPc = "preamble"
             /\ license_message = [bMsgtype |-> 0, wMsgSize |-> 0, message |-> <<>>]
             /\ licPayload = [kind |-> "none"]
             /\ licResult = "pending"

\* Number of bytes left in a stream s read up to position p
Avail(s, p) == Len(s) - p

\* Outcomes of the body-size rule of preamble(): size.inner() as usize - 4.
\* For wMsgSize < 4 the subtraction overflows: a checked build aborts, an
\* unchecked build wraps to a length near 2^64 that no stream can supply.
SizeRuleOverflows(wMsgSize) == wMsgSize < 4

\* license_message.read(s)? with the flag decoded and not compared
PreambleRead_FlagUnchecked ==
    /\ UNCHANGED licFrame
    /\ licPc = "preamble"
    /\ LET s == licStream IN
       IF Avail(s, 0) < 1 THEN
           /\ licResult' = "Io" /\ licPc' = "done"
           /\ UNCHANGED <<licPos, license_message>>
       ELSE IF Avail(s, 1) < 1 THEN
           /\ licResult' = "Io" /\ licPc' = "done"
           /\ UNCHANGED <<licPos, license_message>>
       ELSE IF Avail(s, 2) < 2 THEN
           /\ licResult' = "Io" /\ licPc' = "done"
           /\ UNCHANGED <<licPos, license_message>>
       ELSE LET wMsgSize == FromU16LE(s, 3) IN
           IF SizeRuleOverflows(wMsgSize) THEN
               /\ licResult' \in {"panic", "Io"} /\ licPc' = "done"
               /\ UNCHANGED <<licPos, license_message>>
           ELSE IF Avail(s, 4) < wMsgSize - 4 THEN
               /\ licResult' = "Io" /\ licPc' = "done"
               /\ UNCHANGED <<licPos, license_message>>
           ELSE
               /\ license_message' = [bMsgtype |-> s[1], wMsgSize |-> wMsgSize,
                                      message |-> SubSeq(s, 5, wMsgSize)]
               /\ licPos' = wMsgSize
               /\ licPc' = "parse_payload"
               /\ UNCHANGED licResult
    /\ UNCHANGED <<licIn, licStream, licPayload>>

\* license_message.read(s)? : decode bMsgtype, flag (checked), wMsgSize and
\* the message of wMsgSize - 4 bytes, in declaration order.
PreambleRead ==
    /\ UNCHANGED licFrame
    /\ licPc = "preamble"
    /\ LET s == licStream IN
       IF Avail(s, 0) < 1 THEN
           /\ licResult' = "Io" /\ licPc' = "done"
           /\ UNCHANGED <<licPos, license_message>>
       ELSE IF Avail(s, 1) < 1 THEN
           /\ licResult' = "Io" /\ licPc' = "done"
           /\ UNCHANGED <<licPos, license_message>>
       ELSE IF s[2] # Version30 THEN
           /\ licResult' = "InvalidConst" /\ licPc' = "done"
           /\ UNCHANGED <<licPos, license_message>>
       ELSE IF Avail(s, 2) < 2 THEN
           /\ licResult' = "Io" /\ licPc' = "done"
           /\ UNCHANGED <<licPos, license_message>>
       ELSE LET wMsgSize == FromU16LE(s, 3) IN
           IF SizeRuleOverflows(wMsgSize) THEN
               /\ licResult' \in {"panic", "Io"} /\ licPc' = "done"
               /\ UNCHANGED <<licPos, license_message>>
           ELSE IF Avail(s, 4) < wMsgSize - 4 THEN
               /\ licResult' = "Io" /\ licPc' = "done"
               /\ UNCHANGED <<licPos, license_message>>
           ELSE
               /\ license_message' = [bMsgtype |-> s[1], wMsgSize |-> wMsgSize,
                                      message |-> SubSeq(s, 5, wMsgSize)]
               /\ licPos' = wMsgSize
               /\ licPc' = "parse_payload"
               /\ UNCHANGED licResult
    /\ UNCHANGED <<licIn, licStream, licPayload>>

\* message.read(&mut stream) of licensing_error_message() over the bytes m:
\* the decoded component, or "Io" when m ends inside a field.
ErrorMessageRead(m) ==
    IF Len(m) < 12 THEN [kind |-> "Io"]
    ELSE LET wBlobLen == FromU16LE(m, 11) IN
         IF Len(m) - 12 < wBlobLen THEN [kind |-> "Io"]
         ELSE [kind |-> "ErrorAlert",
               dwErrorCode |-> FromU32LE(m, 1),
               dwStateTransition |-> FromU32LE(m, 5),
               wBlobLen |-> wBlobLen]

\* parse_payload with the catch-all arm reporting InvalidRespond
parse_payload_CatchAllInvalidRespond(payload) ==
    IF payload.bMsgtype \notin MessageTypeValues THEN [kind |-> "TryFromPrimitive"]
    ELSE IF payload.bMsgtype = MT_NewLicense THEN [kind |-> "NewLicense"]
    ELSE IF payload.bMsgtype = MT_ErrorAlert THEN ErrorMessageRead(payload.message)
    ELSE [kind |-> "InvalidRespond"]

\* parse_payload(payload)
parse_payload(payload) ==
    IF payload.bMsgtype \notin MessageTypeValues THEN [kind |-> "TryFromPrimitive"]
    ELSE IF payload.bMsgtype = MT_NewLicense THEN [kind |-> "NewLicense"]
    ELSE IF payload.bMsgtype = MT_ErrorAlert THEN ErrorMessageRead(payload.message)
    ELSE [kind |-> "NotImplemented"]

\* match parse_payload(&license_message)? { ... }
ParsePayload ==
    /\ UNCHANGED licFrame
    /\ licPc = "parse_payload"
    /\ LET r == parse_payload(license_message) IN
       IF r.kind \in {"NewLicense", "ErrorAlert"} THEN
           /\ licPayload' = r
           /\ licPc' = "match"
           /\ UNCHANGED licResult
       ELSE
           /\ licResult' = r.kind
           /\ licPc' = "done"
           /\ UNCHANGED licPayload
    /\ UNCHANGED <<licIn, licStream, licPos, license_message>>

\* accept test with || in place of &&
AlertVerdict_Or(blob) ==
    IF blob.dwErrorCode \notin ErrorCodeValues THEN "TryFromPrimitive"
    ELSE IF blob.dwErrorCode = StatusValidClient THEN "Ok"
    ELSE IF blob.dwStateTransition \notin StateTransitionValues THEN "TryFromPrimitive"
    ELSE IF blob.dwStateTransition = NoTransition THEN "Ok"
    ELSE "InvalidRespond"

\* accept test comparing the transition with TotalAbort
AlertVerdict_TotalAbort(blob) ==
    IF blob.dwErrorCode \notin ErrorCodeValues THEN "TryFromPrimitive"
    ELSE IF blob.dwErrorCode # StatusValidClient THEN "InvalidRespond"
    ELSE IF blob.dwStateTransition \notin StateTransitionValues THEN "TryFromPrimitive"
    ELSE IF blob.dwStateTransition = TotalAbort THEN "Ok"
    ELSE "InvalidRespond"

\* The accept test of client_connect on a decoded ErrorAlert
AlertVerdict(blob) ==
    IF blob.dwErrorCode \notin ErrorCodeValues THEN "TryFromPrimitive"
    ELSE IF blob.dwErrorCode # StatusValidClient THEN "InvalidRespond"
    ELSE IF blob.dwStateTransition \notin StateTransitionValues THEN "TryFromPrimitive"
    ELSE IF blob.dwStateTransition = NoTransition THEN "Ok"
    ELSE "InvalidRespond"

\* the two arms of the match in client_connect
ClientConnectMatch ==
    /\ UNCHANGED licFrame
    /\ licPc = "match"
    /\ licResult' = (IF licPayload.kind = "NewLicense" THEN "Ok" ELSE AlertVerdict(licPayload))
    /\ licPc' = "done"
    /\ UNCHANGED <<licIn, licStream, licPos, license_message, licPayload>>

(***************************************************************************)
(* codec/rle.rs : rle_16_decompress                                        *)
(***************************************************************************)
\* Option<usize>::None for line and prevline
NoLine == -1

\* ---- bounds of the explored decodes ----
MaxWidth == 3
WideWidth == 10
MaxHeight == 2
MaxInput == 5
MaxCount == 3

R16Widths == 0..MaxWidth \cup {WideWidth}
\* opcode bytes drawn for read_u8 at the head of the outer loop: every
\* opcode of the three code ranges, with zero and non-zero inline counts
R16Codes == {0, 1, 2, 9, 33, 64, 65, 66, 97, 129, 130, 161, 193, 209, 225, 227, 232,
             240, 241, 243, 244, 248, 249, 250, 251, 253, 254}
\* 16-bit words drawn for read_u16 (pixels, colours, mix)
R16Words == {0, 255, 65535}
\* values drawn for the 16-bit count of the 0xF0..0xF8 codes
R16Counts == 0..MaxCount
\* bytes drawn for the count extension byte and for the inline FOM mask
R16CountBytes == {0, 1}
R16MaskBytes == {0, 1, 170, 255}

RECURSIVE Xor16From(_, _, _)
Xor16From(a, b, i) ==
    IF i = 16 THEN 0
    ELSE (((a % 2) + (b % 2)) % 2) + 2 * Xor16From(a \div 2, b \div 2, i + 1)

\* a ^ b on u16
Xor16(a, b) == Xor16From(a, b, 0)

\* the mask read from its most significant bit down
MaskBitSet_MsbFirst(m, bit) == bit # 0 /\ (m \div (128 \div bit)) % 2 = 1

\* (mask & mixmask) != 0 for a one-bit mixmask
MaskBitSet(m, bit) == bit # 0 /\ (m \div bit) % 2 = 1

\* mixmask <<= 1 on u8
Shl1U8(m) == (2 * m) % 256

R16Idle ==
    /\ width = 0 /\ height0 = 0 /\ height = 0 /\ inputLeft = 0
    /\ output = <<>>
    /\ lastopcode = 255 /\ insertmix = FALSE /\ x = 0
    /\ prevline = NoLine /\ line = NoLine
    /\ colour1 = 0 /\ colour2 = 0 /\ mix = 65535 /\ mask = 0 /\ bicolour = FALSE
    /\ fom_mask = 0 /\ opcode = 0 /\ count = 0 /\ mixmask = 0 /\ unroll = 0
    /\ runStart = 0 /\ runCount = 0 /\ runPrev = 255 /\ runCode = 0
    /\ r16Pc = "idle" /\ r16Result = "pending"

\* the locals with the cursor at the left edge: x = 0 in place of x = width
R16Init_CursorAtLeft ==
    \E w \in R16Widths, h \in 0..MaxHeight, n \in 0..MaxInput :
        /\ width = w /\ height0 = h /\ height = h /\ inputLeft = n
        /\ output = [i \in 0..(w * h - 1) |-> 0]
        /\ lastopcode = 255 /\ insertmix = FALSE /\ x = 0
        /\ prevline = NoLine /\ line = NoLine
        /\ colour1 = 0 /\ colour2 = 0 /\ mix = 65535 /\ mask = 0 /\ bicolour = FALSE
        /\ fom_mask = 0 /\ opcode = 0 /\ count = 0 /\ mixmask = 0 /\ unroll = 0
        /\ runStart = 0 /\ runCount = 0 /\ runPrev = 255 /\ runCode = 0
        /\ r16Pc = "outer" /\ r16Result = "pending"

\* state of the locals at lines 128-139
R16Init ==
    \E w \in R16Widths, h \in 0..MaxHeight, n \in 0..MaxInput :
        /\ width = w /\ height0 = h /\ height = h /\ inputLeft = n
        /\ output = [i \in 0..(w * h - 1) |-> 0]
        /\ lastopcode = 255 /\ insertmix = FALSE /\ x = w
        /\ prevline = NoLine /\ line = NoLine
        /\ colour1 = 0 /\ colour2 = 0 /\ mix = 65535 /\ mask = 0 /\ bicolour = FALSE
        /\ fom_mask = 0 /\ opcode = 0 /\ count = 0 /\ mixmask = 0 /\ unroll = 0
        /\ runStart = 0 /\ runCount = 0 /\ runPrev = 255 /\ runCode = 0
        /\ r16Pc = "outer" /\ r16Result = "pending"

\* number of pixels emitted so far: the rows below the current line and the
\* x pixels of the current line
R16Emitted == IF line = NoLine THEN 0 ELSE (height0 - 1 - height) * width + x

\* return from rle_16_decompress with value r
R16Return(r) ==
    /\ r16Result' = r
    /\ r16Pc' = "done"

\* (opcode, count, offset) of the match at lines 146-166; cnt16 is the word
\* read for the 0xF0..0xF8 codes
R16Decode(code, cnt16) ==
    LET hi == code \div 16 IN
    IF hi \in 12..14 THEN [opcode |-> hi - 6, count |-> code % 16, offset |-> 16, read16 |-> FALSE]
    ELSE IF hi = 15 THEN
        LET op == code % 16 IN
        [opcode |-> op,
         count |-> IF op < 9 THEN cnt16 ELSE IF op < 11 THEN 8 ELSE 1,
         offset |-> 0, read16 |-> op < 9]
    ELSE [opcode |-> hi \div 2, count |-> code % 32, offset |-> 32, read16 |-> FALSE]

\* count after lines 168-175; cb is the extension byte
R16ExtendCount(d, cb) ==
    LET isfillormix == d.opcode = 2 \/ d.opcode = 7 IN
    IF d.offset # 0 THEN
        IF d.count = 0 THEN cb + (IF isfillormix THEN 1 ELSE d.offset)
        ELSE IF isfillormix THEN d.count * 8
        ELSE d.count
    ELSE d.count

\* the reads of one outer iteration without the opcode byte of line 143
R16HeaderBytes_NoOpcodeByte(d) ==
    (IF d.read16 THEN 2 ELSE 0)
      + (IF d.offset # 0 /\ d.count = 0 THEN 1 ELSE 0)
      + (IF d.opcode = 8 THEN 4 ELSE IF d.opcode \in {3, 6, 7} THEN 2 ELSE 0)

\* number of input bytes one outer iteration reads before the run loop
R16HeaderBytes(d) ==
    1 + (IF d.read16 THEN 2 ELSE 0)
      + (IF d.offset # 0 /\ d.count = 0 THEN 1 ELSE 0)
      + (IF d.opcode = 8 THEN 4 ELSE IF d.opcode \in {3, 6, 7} THEN 2 ELSE 0)

\* the test of line 179 without its second operand
R16InsertMixTest_NoEdgeCase(last, op, xx, w, prev) == last = op

\* the test of line 179
R16InsertMixTest(last, op, xx, w, prev) == last = op /\ ~(xx = w /\ prev = NoLine)

\* while position < input.len(): one opcode byte, its count and operands
\* (lines 141-207); a read past the end of the input returns its error
OuterIteration ==
    /\ UNCHANGED r16Frame
    /\ r16Pc = "outer"
    /\ inputLeft > 0
    /\ \E code \in R16Codes :
       \E cnt16 \in (IF R16Decode(code, 0).read16 THEN R16Counts ELSE {0}) :
       \E cb \in (IF R16Decode(code, 0).offset # 0 /\ R16Decode(code, 0).count = 0
                  THEN R16CountBytes ELSE {0}) :
       \E w1 \in (IF R16Decode(code, 0).opcode \in {3, 6, 7, 8} THEN R16Words ELSE {0}) :
       \E w2 \in (IF R16Decode(code, 0).opcode = 8 THEN R16Words ELSE {0}) :
        LET d == R16Decode(code, cnt16)
            c == R16ExtendCount(d, cb)
            op == d.opcode
        IN
        IF R16HeaderBytes(d) > inputLeft THEN
            /\ R16Return("Io")
            /\ UNCHANGED <<inputLeft, lastopcode, insertmix, colour1, colour2, mix, mask,
                           fom_mask, opcode, count, mixmask, runStart, runCount, runPrev, runCode>>
        ELSE
            /\ inputLeft' = inputLeft - R16HeaderBytes(d)
            /\ count' = c
            /\ runStart' = R16Emitted
            /\ runCount' = c
            /\ runPrev' = IF op = 0 THEN lastopcode ELSE 255
            /\ runCode' = code
            /\ insertmix' = IF op = 0 /\ R16InsertMixTest(lastopcode, op, x, width, prevline)
                            THEN TRUE ELSE insertmix
            /\ colour1' = IF op = 8 THEN w1 ELSE colour1
            /\ colour2' = IF op = 8 THEN w2 ELSE IF op = 3 THEN w1 ELSE colour2
            /\ mix' = IF op \in {6, 7} THEN w1 ELSE mix
            /\ mask' = IF op = 9 THEN 3 ELSE IF op = 10 THEN 5 ELSE mask
            /\ fom_mask' = IF op = 9 THEN 3 ELSE IF op = 10 THEN 5 ELSE 0
            /\ opcode' = IF op \in {6, 7} THEN op - 5 ELSE IF op \in {9, 10} THEN 2 ELSE op
            /\ lastopcode' = opcode'
            /\ mixmask' = 0
            /\ r16Pc' = "run"
            /\ UNCHANGED r16Result
    /\ UNCHANGED <<width, height0, height, output, x, prevline, line, bicolour, unroll>>

\* the outer loop ends when the input is used up: Ok(())
OuterExit ==
    /\ UNCHANGED r16Frame
    /\ r16Pc = "outer"
    /\ inputLeft = 0
    /\ R16Return("Ok")
    /\ UNCHANGED <<width, height0, height, inputLeft, output, lastopcode, insertmix, x,
                   prevline, line, colour1, colour2, mix, mask, bicolour, fom_mask, opcode,
                   count, mixmask, unroll, runStart, runCount, runPrev, runCode>>

\* the opcodes with an arm in the match of lines 226-308
R16RunOpcodes == {0, 1, 2, 3, 4, 8, 13, 14}

\* x >= width at line 210
R16AtRightEdge(xx, w) == xx >= w

\* the test of line 211 left out
R16NoRowLeft_Never(h) == FALSE

\* height == 0 at line 211
R16NoRowLeft(h) == h = 0

\* an index into output is inside the slice
R16InBounds(i) == i >= 0 /\ i < width * height0

\* while count > 0 (lines 209-233): line wrap, line.ok_or, the opcode arm is
\* chosen; the background arm emits its inserted mix pixel here
RunIteration ==
    /\ UNCHANGED r16Frame
    /\ r16Pc = "run"
    /\ count > 0
    /\ LET wrap == R16AtRightEdge(x, width)
           x1 == IF wrap THEN 0 ELSE x
           h1 == IF wrap THEN height - 1 ELSE height
           prev1 == IF wrap THEN line ELSE prevline
           line1 == IF wrap THEN h1 * width ELSE line
       IN
       IF wrap /\ R16NoRowLeft(height) THEN
           /\ R16Return("RleDecode")
           /\ UNCHANGED <<height, output, insertmix, x, prevline, line, count, unroll>>
       ELSE IF wrap /\ height = 0 THEN
           \* height -= 1 below zero
           /\ R16Return("panic")
           /\ UNCHANGED <<height, output, insertmix, x, prevline, line, count, unroll>>
       ELSE IF line1 = NoLine THEN
           /\ R16Return("RleDecode")
           /\ UNCHANGED <<height, output, insertmix, x, prevline, line, count, unroll>>
       ELSE IF opcode \notin R16RunOpcodes THEN
           /\ R16Return("RleDecode")
           /\ x' = x1 /\ height' = h1 /\ prevline' = prev1 /\ line' = line1
           /\ UNCHANGED <<output, insertmix, count, unroll>>
       ELSE IF opcode = 0 /\ insertmix THEN
           IF ~R16InBounds(line1 + x1) \/ (prev1 # NoLine /\ ~R16InBounds(prev1 + x1)) THEN
               /\ R16Return("panic")
               /\ x' = x1 /\ height' = h1 /\ prevline' = prev1 /\ line' = line1
               /\ UNCHANGED <<output, insertmix, count, unroll>>
           ELSE
               /\ output' = [output EXCEPT ![line1 + x1] =
                               IF prev1 # NoLine THEN Xor16(output[prev1 + x1], mix) ELSE mix]
               /\ insertmix' = FALSE
               /\ count' = count - 1
               /\ x' = x1 + 1
               /\ height' = h1 /\ prevline' = prev1 /\ line' = line1
               /\ unroll' = 0
               /\ r16Pc' = "repeat"
               /\ UNCHANGED r16Result
       ELSE
           /\ x' = x1 /\ height' = h1 /\ prevline' = prev1 /\ line' = line1
           /\ unroll' = 0
           /\ r16Pc' = "repeat"
           /\ UNCHANGED <<output, insertmix, count, r16Result>>
    /\ UNCHANGED <<width, height0, inputLeft, lastopcode, colour1, colour2, mix, mask,
                   bicolour, fom_mask, opcode, mixmask, runStart, runCount, runPrev, runCode>>

\* the run loop ends when count reaches 0: back to the outer loop
RunExit ==
    /\ UNCHANGED r16Frame
    /\ r16Pc = "run"
    /\ count = 0
    /\ r16Pc' = "outer"
    /\ UNCHANGED <<width, height0, height, inputLeft, output, lastopcode, insertmix, x,
                   prevline, line, colour1, colour2, mix, mask, bicolour, fom_mask, opcode,
                   count, mixmask, unroll, runStart, runCount, runPrev, runCode, r16Result>>

\* loop tests of repeat!: the unrolled loop (line 93) and the tail loop (line 119)
RepeatUnrolledTest(c, xx, w) == c >= 8 /\ xx + 8 < w

\* tail loop test with <= in place of <
RepeatTailTest_Inclusive(c, xx, w) == c > 0 /\ xx <= w

RepeatTailTest(c, xx, w) == c > 0 /\ xx < w

\* the bicolour arm without its count += 1
R16BicolourCount_NoCredit(b, c) == c

\* lines 287-291: count as the bicolour arm leaves it, one more when it
\* yields colour1
R16BicolourCount(b, c) == IF b THEN c ELSE c + 1

\* repeat!: one "$expr; $count -= 1; $x += 1" (lines 93-123) with the $expr
\* of the current opcode arm (lines 226-306)
RepeatStep ==
    /\ UNCHANGED r16Frame
    /\ r16Pc = "repeat"
    /\ unroll > 0 \/ RepeatUnrolledTest(count, x, width) \/ RepeatTailTest(count, x, width)
    /\ unroll' = IF unroll > 0 THEN unroll - 1
                 ELSE IF RepeatUnrolledTest(count, x, width) THEN 7 ELSE 0
    /\ \E mb \in (IF opcode = 2 /\ Shl1U8(mixmask) = 0 /\ fom_mask = 0
                  THEN R16MaskBytes ELSE {0}) :
       \E w1 \in (IF opcode = 4 THEN R16Words ELSE {0}) :
        LET hasPrev == prevline # NoLine
            newMask == opcode = 2 /\ Shl1U8(mixmask) = 0
            readMask == newMask /\ fom_mask = 0
            mm1 == IF opcode = 2 THEN (IF newMask THEN 1 ELSE Shl1U8(mixmask)) ELSE mixmask
            mask1 == IF newMask THEN (IF fom_mask # 0 THEN fom_mask ELSE mb) ELSE mask
            need == IF readMask THEN 1 ELSE IF opcode = 4 THEN 2 ELSE 0
            usesPrev == hasPrev /\ opcode \in {0, 1, 2}
            c1 == IF opcode = 8 THEN R16BicolourCount(bicolour, count) ELSE count
        IN
        IF need > inputLeft THEN
            /\ R16Return("Io")
            /\ UNCHANGED <<inputLeft, output, x, count, mask, mixmask, bicolour>>
        ELSE IF ~R16InBounds(line + x) \/ (usesPrev /\ ~R16InBounds(prevline + x)) THEN
            /\ R16Return("panic")
            /\ UNCHANGED <<inputLeft, output, x, count, mask, mixmask, bicolour>>
        ELSE IF c1 = 0 THEN
            /\ R16Return("panic")
            /\ UNCHANGED <<inputLeft, output, x, count, mask, mixmask, bicolour>>
        ELSE
            /\ inputLeft' = inputLeft - need
            /\ mask' = mask1
            /\ mixmask' = mm1
            /\ bicolour' = IF opcode = 8 THEN ~bicolour ELSE bicolour
            /\ output' = [output EXCEPT ![line + x] =
                 CASE opcode = 0 -> IF hasPrev THEN output[prevline + x] ELSE 0
                   [] opcode = 1 -> IF hasPrev THEN Xor16(output[prevline + x], mix) ELSE mix
                   [] opcode = 2 ->
                        IF MaskBitSet(mask1, mm1)
                        THEN (IF hasPrev THEN Xor16(output[prevline + x], mix) ELSE mix)
                        ELSE (IF hasPrev THEN output[prevline + x] ELSE 0)
                   [] opcode = 3 -> colour2
                   [] opcode = 4 -> w1
                   [] opcode = 8 -> IF bicolour THEN colour2 ELSE colour1
                   [] opcode = 13 -> 65535
                   [] OTHER -> 0]
            /\ count' = c1 - 1
            /\ x' = x + 1
            /\ UNCHANGED <<r16Pc, r16Result>>
    /\ UNCHANGED <<width, height0, height, lastopcode, insertmix, prevline, line, colour1,
                   colour2, mix, fom_mask, opcode, runStart, runCount, runPrev, runCode>>

\* both loops of repeat! have ended: back to the test of while count > 0
RepeatExit ==
    /\ UNCHANGED r16Frame
    /\ r16Pc = "repeat"
    /\ unroll = 0
    /\ ~RepeatUnrolledTest(count, x, width)
    /\ ~RepeatTailTest(count, x, width)
    /\ r16Pc' = "run"
    /\ UNCHANGED <<width, height0, height, inputLeft, output, lastopcode, insertmix, x,
                   prevline, line, colour1, colour2, mix, mask, bicolour, fom_mask, opcode,
                   count, mixmask, unroll, runStart, runCount, runPrev, runCode, r16Result>>

(***************************************************************************)
(* codec/rle.rs : rle_32_decompress and process_plane                      *)
(***************************************************************************)
\* ---- bounds of the explored images ----
MaxWidth32 == 5
MaxHeight32 == 3
MaxArea32 == 10

\* the 4-byte pixels images are drawn from (bytes at offsets 0, 1, 2, 3)
Pixels32 == {<<0, 0, 255, 9>>, <<128, 127, 0, 9>>}
\* first bytes the input is given besides 0x10
BadHeaders32 == {0, 17}
\* contents of the output buffer before the call
Fills32 == {0, 170}

\* the byte the plane stores for a signed delta d in -128..127
DeltaByte(d) == IF d >= 0 THEN 2 * d ELSE 2 * (0 - d) - 1

\* the delta in -128..127 that takes byte below to byte cur modulo 256
DeltaBetween(below, cur) == ((cur - below + 128) % 256) - 128

\* number of positions after i that repeat sym[i], at most 15
RECURSIVE RunAfter(_, _, _)
RunAfter(sym, i, n) ==
    IF n < 15 /\ i + n + 1 <= Len(sym) /\ sym[i + n + 1] = sym[i]
    THEN RunAfter(sym, i, n + 1) ELSE n

\* last position of the literal group that starts at i: it ends where a run
\* of at least 3 repeats starts, at the end of the line, or after 15 literals
RECURSIVE LiteralsEnd(_, _, _)
LiteralsEnd(sym, i, j) ==
    IF RunAfter(sym, j, 0) >= 3 \/ j = Len(sym) \/ j - i + 1 = 15 THEN j
    ELSE LiteralsEnd(sym, i, j + 1)

\* reference encoder of one line of symbols: literal groups followed by a
\* repeat run of 3..15 of the last literal
RECURSIVE RefEncodeLine(_, _)
RefEncodeLine(sym, i) ==
    IF i > Len(sym) THEN <<>>
    ELSE LET j == LiteralsEnd(sym, i, i)
             r == IF RunAfter(sym, j, 0) >= 3 THEN RunAfter(sym, j, 0) ELSE 0
         IN <<(j - i + 1) * 16 + r>> \o SubSeq(sym, i, j) \o RefEncodeLine(sym, j + 1 + r)

\* symbols of row r of the plane at byte offset off: the bytes themselves on
\* the bottom row, the delta bytes against the row below on the others
RefLineSymbols(pix, w, h, off, r) ==
    [c \in 1..w |->
        IF r = h - 1 THEN pix[(r * w + c - 1) * 4 + off]
        ELSE DeltaByte(DeltaBetween(pix[((r + 1) * w + c - 1) * 4 + off],
                                    pix[(r * w + c - 1) * 4 + off]))]

\* reference encoder of one plane, rows bottom-up
RECURSIVE RefEncodePlane(_, _, _, _, _)
RefEncodePlane(pix, w, h, off, k) ==
    IF k >= h THEN <<>>
    ELSE RefEncodeLine(RefLineSymbols(pix, w, h, off, h - 1 - k), 1)
         \o RefEncodePlane(pix, w, h, off, k + 1)

\* reference encoder: 0x10, then the planes of byte offsets 3, 2, 1, 0
RefEncode(pix, w, h) ==
    <<16>> \o RefEncodePlane(pix, w, h, 3, 0) \o RefEncodePlane(pix, w, h, 2, 0)
           \o RefEncodePlane(pix, w, h, 1, 0) \o RefEncodePlane(pix, w, h, 0, 0)

R32Idle ==
    /\ pixels32 = <<>> /\ input32 = <<>> /\ cursor32 = 0
    /\ width32 = 0 /\ height32 = 0 /\ output32 = <<>> /\ initial32 = <<>>
    /\ plane = 0 /\ last_line = 0 /\ indexh = 0 /\ out = 0 /\ this_line = 0
    /\ indexw = 0 /\ color = 0
    /\ r32Pc = "idle" /\ r32Result = "pending"

\* the inputs: the reference encoding of an image, as it is, with another
\* first byte, or cut to nothing
R32Init ==
    \E w \in 0..MaxWidth32, h \in 0..MaxHeight32, fill \in Fills32 :
    w * h <= MaxArea32 /\
    \E img \in [0..(w * h - 1) -> Pixels32] :
    \E hdr \in {16} \cup BadHeaders32, cut \in {FALSE, TRUE} :
        LET pix == [i \in 0..(w * h * 4 - 1) |-> img[i \div 4][(i % 4) + 1]]
            enc == RefEncode(pix, w, h)
        IN
        /\ pixels32 = pix
        /\ input32 = IF cut THEN <<>> ELSE <<hdr>> \o Tail(enc)
        /\ cursor32 = 0
        /\ width32 = w /\ height32 = h
        /\ output32 = [i \in 0..(w * h * 4 - 1) |-> fill]
        /\ initial32 = [i \in 0..(w * h * 4 - 1) |-> fill]
        /\ plane = 0 /\ last_line = 0 /\ indexh = 0 /\ out = 0 /\ this_line = 0
        /\ indexw = 0 /\ color = 0
        /\ r32Pc = "header" /\ r32Result = "pending"

R32Return(r) ==
    /\ r32Result' = r
    /\ r32Pc' = "done"

\* the magic first byte tested at line 80
R32Magic == 16

\* the header byte read but not tested
Rle32Header_NoTest ==
    /\ UNCHANGED r32Frame
    /\ r32Pc = "header"
    /\ IF cursor32 >= Len(input32) THEN
           /\ R32Return("Io")
           /\ UNCHANGED cursor32
       ELSE
           /\ cursor32' = cursor32 + 1
           /\ r32Pc' = "call"
           /\ UNCHANGED r32Result
    /\ UNCHANGED <<pixels32, input32, width32, height32, output32, initial32, plane,
                   last_line, indexh, out, this_line, indexw, color>>

\* lines 78-82: the header byte
Rle32Header ==
    /\ UNCHANGED r32Frame
    /\ r32Pc = "header"
    /\ IF cursor32 >= Len(input32) THEN
           /\ R32Return("Io")
           /\ UNCHANGED cursor32
       ELSE IF input32[cursor32 + 1] # R32Magic THEN
           /\ R32Return("RleDecode")
           /\ cursor32' = cursor32 + 1
       ELSE
           /\ cursor32' = cursor32 + 1
           /\ r32Pc' = "call"
           /\ UNCHANGED r32Result
    /\ UNCHANGED <<pixels32, input32, width32, height32, output32, initial32, plane,
                   last_line, indexh, out, this_line, indexw, color>>

\* start of the sub-slice the (k+1)-th process_plane call is given
PlaneOffset(k) == 3 - k

\* output.len(): the caller's buffer of width * height 4-byte pixels
OutputLen32 == width32 * height32 * 4

\* lines 84-88 and 11: the next process_plane call on &mut output[off..],
\* or Ok(()) after the fourth
PlaneCall ==
    /\ UNCHANGED r32Frame
    /\ r32Pc = "call"
    /\ IF plane = 4 THEN
           /\ R32Return("Ok")
           /\ UNCHANGED <<last_line, indexh>>
       ELSE IF PlaneOffset(plane) > OutputLen32 THEN
           /\ R32Return("panic")
           /\ UNCHANGED <<last_line, indexh>>
       ELSE
           /\ last_line' = 0
           /\ indexh' = 0
           /\ r32Pc' = "line"
           /\ UNCHANGED r32Result
    /\ UNCHANGED <<pixels32, input32, cursor32, width32, height32, output32, initial32,
                   plane, out, this_line, indexw, color>>

\* out of line 14
LineStartOffset(h, ih, w) == (h - ih - 1) * w * 4

\* lines 13-18 and 43: one turn of for indexh in 0..height, or the return
\* of process_plane when the range is used up
LineStart ==
    /\ UNCHANGED r32Frame
    /\ r32Pc = "line"
    /\ IF indexh < height32 THEN
           /\ out' = LineStartOffset(height32, indexh, width32)
           /\ this_line' = out'
           /\ indexw' = 0
           /\ color' = 0
           /\ r32Pc' = "code"
           /\ UNCHANGED plane
       ELSE
           /\ plane' = plane + 1
           /\ r32Pc' = "call"
           /\ UNCHANGED <<out, this_line, indexw, color>>
    /\ UNCHANGED <<pixels32, input32, cursor32, width32, height32, output32, initial32,
                   last_line, indexh, r32Result>>

\* delta of line 55 with the sign test inverted
SignedDelta_SignSwapped(b) == IF b % 2 = 0 THEN 0 - ((b \div 2) + 1) ELSE b \div 2

\* line 55: the signed delta of a literal byte
SignedDelta(b) == IF b % 2 # 0 THEN 0 - ((b \div 2) + 1) ELSE b \div 2

\* the sum clamped to 0..255 in place of the wrapping cast
AddDelta_Saturating(b, d) == IF b + d > 255 THEN 255 ELSE IF b + d < 0 THEN 0 ELSE b + d

\* (byte + delta) as u8 of lines 56 and 63
AddDelta(b, d) == (b + d) % 256

\* the slice given to process_plane has an element i
R32InSlice(i) == i >= 0 /\ PlaneOffset(plane) + i < OutputLen32

\* the two inner loops of one code (lines 28-40 and 53-68) on the state
\* st = [buf, o, iw, col, pos, status]: collen literals, then replen repeats
RECURSIVE PlaneRun(_, _, _)
PlaneRun(st, collen, replen) ==
    IF st.status # "ok" \/ (collen = 0 /\ replen = 0) THEN st
    ELSE IF collen > 0 /\ st.pos >= Len(input32) THEN [st EXCEPT !.status = "Io"]
    ELSE
        LET lit == collen > 0
            b == IF lit THEN input32[st.pos + 1] ELSE 0
            col == IF ~lit THEN st.col
                   ELSE IF last_line = 0 THEN b ELSE SignedDelta(b)
            src == last_line + st.iw * 4
        IN
        IF last_line # 0 /\ ~R32InSlice(src) THEN [st EXCEPT !.status = "panic"]
        ELSE IF ~R32InSlice(st.o) THEN [st EXCEPT !.status = "panic"]
        ELSE
            LET v == IF last_line = 0 THEN col
                     ELSE AddDelta(st.buf[PlaneOffset(plane) + src], col)
                next == [buf |-> [st.buf EXCEPT ![PlaneOffset(plane) + st.o] = v],
                         o |-> st.o + 4, iw |-> st.iw + 1, col |-> col,
                         pos |-> IF lit THEN st.pos + 1 ELSE st.pos,
                         status |-> "ok"]
            IN PlaneRun(next, IF lit THEN collen - 1 ELSE 0, IF lit THEN replen ELSE replen - 1)

\* (replen, collen) of a code byte, lines 21-27
CodeLengths(code) ==
    LET replen == code % 16
        collen == (code \div 16) % 16
        revcode == replen * 16 + collen
    IN IF revcode >= 16 /\ revcode <= 47 THEN [replen |-> revcode, collen |-> 0]
       ELSE [replen |-> replen, collen |-> collen]

\* while indexw < width (lines 19-41 and 44-69): one code byte and its runs
PlaneCode ==
    /\ UNCHANGED r32Frame
    /\ r32Pc = "code"
    /\ indexw < width32
    /\ IF cursor32 >= Len(input32) THEN
           /\ R32Return("Io")
           /\ UNCHANGED <<cursor32, output32, out, indexw, color>>
       ELSE
           LET l == CodeLengths(input32[cursor32 + 1])
               st == PlaneRun([buf |-> output32, o |-> out, iw |-> indexw, col |-> color,
                               pos |-> cursor32 + 1, status |-> "ok"], l.collen, l.replen)
           IN
           /\ output32' = st.buf
           /\ out' = st.o
           /\ indexw' = st.iw
           /\ color' = st.col
           /\ cursor32' = st.pos
           /\ IF st.status = "ok" THEN UNCHANGED <<r32Pc, r32Result>>
              ELSE R32Return(st.status)
    /\ UNCHANGED <<pixels32, input32, width32, height32, initial32, plane, last_line,
                   indexh, this_line>>

\* line 71: the line is full, the next turn of the for loop
LineEnd ==
    /\ UNCHANGED r32Frame
    /\ r32Pc = "code"
    /\ indexw >= width32
    /\ last_line' = this_line
    /\ indexh' = indexh + 1
    /\ r32Pc' = "line"
    /\ UNCHANGED <<pixels32, input32, cursor32, width32, height32, output32, initial32,
                   plane, out, this_line, indexw, color, r32Result>>

R32Next == Rle32Header \/ PlaneCall \/ LineStart \/ PlaneCode \/ LineEnd

\* (width, height) of the images whose encoding is damaged
DamagedSizes32 == {<<1, 1>>, <<1, 2>>, <<2, 1>>, <<2, 2>>, <<1, 3>>}

\* the bytes put in place of one byte of an encoding: as code bytes, 3
\* repeats, 1 literal and 3 repeats, 2 literals, 15 literals and 15 repeats
DamageBytes32 == {3, 19, 32, 255}

\* the inputs a peer can send that no encoder produces: the reference
\* encoding of an image with one byte after the header replaced
R32InitDamaged ==
    \E size \in DamagedSizes32 :
    \E img \in [0..(size[1] * size[2] - 1) -> Pixels32] :
        LET w == size[1]
            h == size[2]
            pix == [i \in 0..(w * h * 4 - 1) |-> img[i \div 4][(i % 4) + 1]]
            enc == RefEncode(pix, w, h)
        IN
        \E p \in 2..Len(enc), b \in DamageBytes32 :
        /\ pixels32 = pix
        /\ input32 = [enc EXCEPT ![p] = b]
        /\ cursor32 = 0
        /\ width32 = w /\ height32 = h
        /\ output32 = [i \in 0..(w * h * 4 - 1) |-> 0]
        /\ initial32 = [i \in 0..(w * h * 4 - 1) |-> 0]
        /\ plane = 0 /\ last_line = 0 /\ indexh = 0 /\ out = 0 /\ this_line = 0
        /\ indexw = 0 /\ color = 0
        /\ r32Pc = "header" /\ r32Result = "pending"

(***************************************************************************)
(* codec/rle.rs : rgb565torgb32                                            *)
(***************************************************************************)
\* ---- bounds of the explored pixel sequences ----
MaxPixels == 3

\* the 16-bit pixels drawn: black, each channel alone at its maximum, white,
\* and mixed values
Rgb565Values == {0, 31, 2016, 63488, 65535, 2113, 33808}

\* a u16 product or sum that no longer fits 16 bits
OverflowsU16(n) == n > 65535

\* "as u8"
AsU8(n) == n % 256

\* v & 0x1f, (v >> 5) & 0x3f, (v >> 11) & 0x1f
Blue5(v) == v % 32
Green6(v) == (v \div 32) % 64
Red5(v) == (v \div 2048) % 32

\* the five-bit scaling with a factor that leaves the 16-bit range
Scale5_WideFactor(c) == c * 2114 + 23

\* the sums of lines 319-321 before the shift
Scale5(c) == c * 527 + 23
Scale6(c) == c * 259 + 33

\* a u16 value after wrap-around
WrapU16(n) == n % 65536

\* the closure without the fourth element
Rgb565Bytes_NoAlpha(v) ==
    <<AsU8(WrapU16(Scale5(Blue5(v))) \div 64), AsU8(WrapU16(Scale6(Green6(v))) \div 64),
      AsU8(WrapU16(Scale5(Red5(v))) \div 64)>>

\* the four bytes the closure of lines 317-324 yields for one pixel
Rgb565Bytes(v) ==
    <<AsU8(WrapU16(Scale5(Blue5(v))) \div 64), AsU8(WrapU16(Scale6(Green6(v))) \div 64),
      AsU8(WrapU16(Scale5(Red5(v))) \div 64), 255>>

RgbIdle ==
    /\ rgbInput = <<>> /\ rgbNext = 0 /\ rgbOutput = <<>> /\ rgbPc = "idle"

\* line 316: an empty output vector
RgbInit ==
    \E n \in 0..MaxPixels :
    \E inp \in [1..n -> Rgb565Values] :
        /\ rgbInput = inp
        /\ rgbNext = 0
        /\ rgbOutput = <<>>
        /\ rgbPc = "extend"

\* output.extend(..): the next pixel of the iterator and its four bytes; a
\* 16-bit overflow in the arithmetic aborts a build with overflow checks and
\* wraps around in a build without
RgbPixel ==
    /\ UNCHANGED rgbFrame
    /\ rgbPc = "extend"
    /\ rgbNext < Len(rgbInput)
    /\ LET v == rgbInput[rgbNext + 1] IN
       /\ rgbOutput' = rgbOutput \o Rgb565Bytes(v)
       /\ IF OverflowsU16(Scale5(Blue5(v))) \/ OverflowsU16(Scale6(Green6(v)))
             \/ OverflowsU16(Scale5(Red5(v)))
          THEN rgbPc' \in {"panic", "extend"}
          ELSE rgbPc' = "extend"
    /\ rgbNext' = rgbNext + 1
    /\ UNCHANGED rgbInput

\* line 325: the iterator is used up, output is returned
RgbReturn ==
    /\ UNCHANGED rgbFrame
    /\ rgbPc = "extend"
    /\ rgbNext = Len(rgbInput)
    /\ rgbPc' = "done"
    /\ UNCHANGED <<rgbInput, rgbNext, rgbOutput>>

RgbNext == RgbPixel \/ RgbReturn

(***************************************************************************)
(* model/unicode.rs : to_utf16_le                                          *)
(***************************************************************************)
\* ---- bounds of the explored strings ----
MaxChars == 3

\* the chars drawn: 'f', 'o', U+00E9, U+20AC, U+FFFF, U+10000, U+1F600
UniChars == {102, 111, 233, 8364, 65535, 65536, 128512}

\* the code units str::encode_utf16 yields for one char
EncodeUtf16(c) ==
    IF c < 65536 THEN <<c>>
    ELSE <<55296 + ((c - 65536) \div 1024), 56320 + ((c - 65536) % 1024)>>

\* u16::to_be_bytes
to_le_bytes_BigEndian(u) == <<u \div 256, u % 256>>

\* u16::to_le_bytes
to_le_bytes(u) == <<u % 256, u \div 256>>

\* flat_map(u16::to_le_bytes) over a sequence of code units
RECURSIVE FlatLeBytes(_)
FlatLeBytes(units) ==
    IF units = <<>> THEN <<>>
    ELSE to_le_bytes(Head(units)) \o FlatLeBytes(Tail(units))

UniIdle ==
    /\ uniStr = <<>> /\ uniNext = 0 /\ uniOut = <<>> /\ uniPc = "idle"

UniInit ==
    \E n \in 0..MaxChars :
    \E str \in [1..n -> UniChars] :
        /\ uniStr = str
        /\ uniNext = 0
        /\ uniOut = <<>>
        /\ uniPc = "collect"

\* self.encode_utf16().flat_map(u16::to_le_bytes): the next char
EncodeChar ==
    /\ UNCHANGED uniFrame
    /\ uniPc = "collect"
    /\ uniNext < Len(uniStr)
    /\ uniOut' = uniOut \o FlatLeBytes(EncodeUtf16(uniStr[uniNext + 1]))
    /\ uniNext' = uniNext + 1
    /\ UNCHANGED <<uniStr, uniPc>>

\* .collect(): the chars are used up, the vector is returned
UniReturn ==
    /\ UNCHANGED uniFrame
    /\ uniPc = "collect"
    /\ uniNext = Len(uniStr)
    /\ uniPc' = "done"
    /\ UNCHANGED <<uniStr, uniNext, uniOut>>

UniNext == EncodeChar \/ UniReturn

(***************************************************************************)
(* core/gcc.rs : read_conference_create_response                           *)
(***************************************************************************)
\* enum Version, as u32
RdpVersionValue == 524289
RdpVersion5plusValue == 524292

VersionAsU32(v) ==
    IF v = "RdpVersion" THEN RdpVersionValue
    ELSE IF v = "RdpVersion5plus" THEN RdpVersion5plusValue
    ELSE RdpVersion5plusValue + 1

\* impl From<u32> for Version (lines 25-33)
VersionFrom(e) ==
    IF e = 524289 THEN "RdpVersion5plus"
    ELSE IF e = 524292 THEN "RdpVersion"
    ELSE "Unknown"

\* enum MessageType, server to client
ScCore == 3073
ScSecurity == 3074
ScNet == 3075

\* the constant of the MCSChannelId check
McsIoChannel == 1003

\* header.length()
BlockHeaderLen == 4

\* ---- bounds of the explored responses ----
MaxBlocks == 3

\* wire form of a block: block_header (type, length) and the body
GccBlockBytes(b) == U16LE(b.type) \o U16LE(b.len) \o b.body

RECURSIVE U16Array(_)
U16Array(ids) == IF ids = <<>> THEN <<>> ELSE U16LE(Head(ids)) \o U16Array(Tail(ids))

\* wire form of server_network_data()
NetBody(mcs, n, ids) == U16LE(mcs) \o U16LE(n) \o U16Array(ids)

\* the blocks responses are built from: server core blocks with each version
\* value, with an optional field and with a body cut short, a security block,
\* network blocks with and without the expected channel id, a block of an
\* unknown type, and a header whose length is below the header size
GccBlockChoices ==
    {[type |-> ScCore, len |-> 8, body |-> U32LE(v)] : v \in {524289, 524292, 524290}}
    \cup {[type |-> ScCore, len |-> 12, body |-> U32LE(524292) \o U32LE(1)],
          [type |-> ScCore, len |-> 6, body |-> <<1, 0>>],
          [type |-> ScSecurity, len |-> 12, body |-> Zeros(8)],
          [type |-> ScNet, len |-> 8, body |-> NetBody(1003, 0, <<>>)],
          [type |-> ScNet, len |-> 12, body |-> NetBody(1003, 2, <<1004, 1005>>)],
          [type |-> ScNet, len |-> 10, body |-> NetBody(1003, 2, <<1004>>)],
          [type |-> ScNet, len |-> 10, body |-> NetBody(1002, 1, <<1004>>)],
          [type |-> 3076, len |-> 4, body |-> <<>>],
          [type |-> ScCore, len |-> 3, body |-> <<>>]}

RECURSIVE GccBlocksBytes(_)
GccBlocksBytes(bs) ==
    IF bs = <<>> THEN <<>> ELSE GccBlockBytes(Head(bs)) \o GccBlocksBytes(Tail(bs))

\* HashMap::new(): no component under any key
NoComponent == [present |-> FALSE]

GccIdle ==
    /\ gccBlocks = <<>> /\ gccPer = "none" /\ cc_response = <<>> /\ length = 0
    /\ gccPos = 0
    /\ result = [core |-> NoComponent, security |-> NoComponent, net |-> NoComponent]
    /\ gccPc = "idle"
    /\ gccRet = [status |-> "pending"]

GccInit ==
    \E n \in 0..MaxBlocks :
    \E bs \in [1..n -> GccBlockChoices] :
    \E per \in {"ok", "error"}, short \in {0, 2} :
        /\ gccBlocks = bs
        /\ gccPer = per
        /\ cc_response = GccBlocksBytes(bs)
        /\ length = IF Len(GccBlocksBytes(bs)) >= short
                    THEN Len(GccBlocksBytes(bs)) - short ELSE 0
        /\ gccPos = 0
        /\ result = [core |-> NoComponent, security |-> NoComponent, net |-> NoComponent]
        /\ gccPc = "prelude"
        /\ gccRet = [status |-> "pending"]

GccReturn(r) ==
    /\ gccRet' = [status |-> r]
    /\ gccPc' = "done"

\* lines 343-356: the PER reads up to the user-data length; any of them may
\* return its error
ReadPrelude ==
    /\ UNCHANGED gccFrame
    /\ gccPc = "prelude"
    /\ IF gccPer = "ok" THEN gccPc' = "loop" /\ UNCHANGED gccRet
       ELSE GccReturn("PerError")
    /\ UNCHANGED <<gccBlocks, gccPer, cc_response, length, gccPos, result>>

\* bytes sub = cc_response.take(length) can still supply
SubLeft == (IF length < Len(cc_response) THEN length ELSE Len(cc_response)) - gccPos

\* server_core_data().read over the block body
ServerCoreRead(buffer) ==
    IF Len(buffer) < 4 THEN [present |-> FALSE, error |-> "Io"]
    ELSE [present |-> TRUE, error |-> "none", rdpVersion |-> FromU32LE(buffer, 1)]

\* server_security_data().read over the block body
ServerSecurityRead(buffer) ==
    IF Len(buffer) < 8 THEN [present |-> FALSE, error |-> "Io"]
    ELSE [present |-> TRUE, error |-> "none"]

\* server_network_data().read with the MCSChannelId field unchecked
ServerNetworkRead_NoCheck(buffer) ==
    IF Len(buffer) < 4 THEN [present |-> FALSE, error |-> "Io"]
    ELSE LET channelCount == FromU16LE(buffer, 3) IN
         IF Len(buffer) - 4 < channelCount * 2 THEN [present |-> FALSE, error |-> "Io"]
         ELSE [present |-> TRUE, error |-> "none",
               channelIdArray |-> [k \in 1..channelCount |-> FromU16LE(buffer, 3 + 2 * k)]]

\* server_network_data().read over the block body
ServerNetworkRead(buffer) ==
    IF Len(buffer) < 2 THEN [present |-> FALSE, error |-> "Io"]
    ELSE IF FromU16LE(buffer, 1) # McsIoChannel THEN [present |-> FALSE, error |-> "InvalidConst"]
    ELSE IF Len(buffer) < 4 THEN [present |-> FALSE, error |-> "Io"]
    ELSE LET channelCount == FromU16LE(buffer, 3) IN
         IF Len(buffer) - 4 < channelCount * 2 THEN [present |-> FALSE, error |-> "Io"]
         ELSE [present |-> TRUE, error |-> "none",
               channelIdArray |-> [k \in 1..channelCount |-> FromU16LE(buffer, 3 + 2 * k)]]

\* lines 357-385: one turn of the loop that found a block header
ReadBlock ==
    /\ UNCHANGED gccFrame
    /\ gccPc = "loop"
    /\ SubLeft >= BlockHeaderLen
    /\ LET type == FromU16LE(cc_response, gccPos + 1)
           len == FromU16LE(cc_response, gccPos + 3)
           body == SubSeq(cc_response, gccPos + 5, gccPos + len)
           comp == IF type = ScCore THEN ServerCoreRead(body)
                   ELSE IF type = ScSecurity THEN ServerSecurityRead(body)
                   ELSE IF type = ScNet THEN ServerNetworkRead(body)
                   ELSE [present |-> FALSE, error |-> "none"]
       IN
       IF len < BlockHeaderLen THEN
           \* u16 subtraction below zero: abort, or a wrapped size that sub
           \* cannot supply
           /\ \/ GccReturn("panic")
              \/ GccReturn("Io")
           /\ UNCHANGED <<gccPos, result>>
       ELSE IF SubLeft < len THEN
           /\ GccReturn("Io")
           /\ UNCHANGED <<gccPos, result>>
       ELSE IF comp.error # "none" THEN
           /\ GccReturn(comp.error)
           /\ UNCHANGED <<gccPos, result>>
       ELSE
           /\ gccPos' = gccPos + len
           /\ result' = IF type = ScCore THEN [result EXCEPT !.core = comp]
                        ELSE IF type = ScSecurity THEN [result EXCEPT !.security = comp]
                        ELSE IF type = ScNet THEN [result EXCEPT !.net = comp]
                        ELSE result
           /\ UNCHANGED <<gccPc, gccRet>>
    /\ UNCHANGED <<gccBlocks, gccPer, cc_response, length>>

\* lines 359-362: no block header can be read, the loop is left
LoopBreak ==
    /\ UNCHANGED gccFrame
    /\ gccPc = "loop"
    /\ SubLeft < BlockHeaderLen
    /\ gccPc' = "build"
    /\ UNCHANGED <<gccBlocks, gccPer, cc_response, length, gccPos, result, gccRet>>

\* lines 388-394: the ServerData; indexing result with a key that is not in
\* the map aborts
BuildServerData ==
    /\ UNCHANGED gccFrame
    /\ gccPc = "build"
    /\ IF ~result.net.present THEN GccReturn("panic")
       ELSE IF ~result.core.present THEN GccReturn("panic")
       ELSE /\ gccRet' = [status |-> "Ok",
                          channel_ids |-> result.net.channelIdArray,
                          rdp_version |-> VersionFrom(result.core.rdpVersion)]
            /\ gccPc' = "done"
    /\ UNCHANGED <<gccBlocks, gccPer, cc_response, length, gccPos, result>>

GccNext == ReadPrelude \/ ReadBlock \/ LoopBreak \/ BuildServerData

(***************************************************************************)
(* core/gcc.rs : write_conference_create_request                           *)
(***************************************************************************)
T124_02_98_OID == <<0, 0, 20, 124, 0, 1>>
H221_CS_KEY == <<68, 117, 99, 97>>

\* the constant added to the user-data length at line 323
ConferenceOverhead == 14

\* lengths of the explored user data: small ones, the ones around the one
\* byte / two byte PER length, and the ones around the u16 range
UserDataLens == {0, 1, 113, 114, 300, 32753, 32754, 65521, 65522, 65535, 65536, 65540}
UserDataIds == {0, 1}

\* one call of a per::write_* function on result
PerItem(f, a, m) == [item |-> f, arg |-> a, min |-> m]

CcrIdle ==
    /\ user_data = [len |-> 0, id |-> 0] /\ ccRequest = <<>>
    /\ ccrPc = "idle" /\ ccrRet = "pending"

CcrInit ==
    \E n \in UserDataLens, i \in UserDataIds :
        /\ user_data = [len |-> n, id |-> i]
        /\ ccRequest = <<>>
        /\ ccrPc = "oid"
        /\ ccrRet = "pending"

\* lines 321-322
WriteOid ==
    /\ UNCHANGED ccrFrame
    /\ ccrPc = "oid"
    /\ ccRequest' = <<PerItem("choice", 0, 0), PerItem("object_identifier", T124_02_98_OID, 0)>>
    /\ ccrPc' = "length"
    /\ UNCHANGED <<user_data, ccrRet>>

\* user_data.len() as u16
UserDataLenAsU16(n) == WrapU16(n)

\* line 323: the sum is a u16 sum; past 65535 it aborts or wraps
WriteLength ==
    /\ UNCHANGED ccrFrame
    /\ ccrPc = "length"
    /\ LET sum == UserDataLenAsU16(user_data.len) + ConferenceOverhead IN
       \/ /\ ccRequest' = Append(ccRequest, PerItem("length", WrapU16(sum), 0))
          /\ ccrPc' = "conference"
          /\ UNCHANGED ccrRet
       \/ /\ OverflowsU16(sum)
          /\ ccrPc' = "done"
          /\ ccrRet' = "panic"
          /\ UNCHANGED ccRequest
    /\ UNCHANGED user_data

\* lines 324-329
WriteConference ==
    /\ UNCHANGED ccrFrame
    /\ ccrPc = "conference"
    /\ ccRequest' = ccRequest \o
          <<PerItem("choice", 0, 0), PerItem("selection", 8, 0),
            PerItem("numeric_string", <<49>>, 1), PerItem("padding", 1, 0),
            PerItem("number_of_set", 1, 0), PerItem("choice", 192, 0)>>
    /\ ccrPc' = "key"
    /\ UNCHANGED <<user_data, ccrRet>>

\* line 330
WriteKey ==
    /\ UNCHANGED ccrFrame
    /\ ccrPc = "key"
    /\ ccRequest' = Append(ccRequest, PerItem("octet_stream", H221_CS_KEY, 4))
    /\ ccrPc' = "user_data"
    /\ UNCHANGED <<user_data, ccrRet>>

\* line 331
WriteUserData ==
    /\ UNCHANGED ccrFrame
    /\ ccrPc = "user_data"
    /\ ccRequest' = Append(ccRequest, PerItem("octet_stream", user_data, 0))
    /\ ccrPc' = "return"
    /\ UNCHANGED <<user_data, ccrRet>>

\* line 332
CcrReturn ==
    /\ UNCHANGED ccrFrame
    /\ ccrPc = "return"
    /\ ccrRet' = "Ok"
    /\ ccrPc' = "done"
    /\ UNCHANGED <<user_data, ccRequest>>

CcrNext == WriteOid \/ WriteLength \/ WriteConference \/ WriteKey \/ WriteUserData \/ CcrReturn

(***************************************************************************)
(* bin/mstsc-rs.rs : the thread of launch_rdp_thread                       *)
(***************************************************************************)
\* ---- bounds of the explored sessions ----
MaxPdus == 2
WinWidth == 2
WinHeight == 2

\* result of bitmap.decompress() when it fails
DecompressError == -1

\* the bitmap events of the explored sessions: one that fits the window, one
\* whose rectangle reaches one row below the window, one whose data does not
\* decompress; data is the number of 32 bit pixels decompress() returns
BitmapShapes ==
    {[dest_left |-> 0, dest_top |-> 0, dest_right |-> WinWidth - 1,
      dest_bottom |-> WinHeight - 1, width |-> WinWidth, data |-> WinWidth * WinHeight],
     [dest_left |-> 0, dest_top |-> 1, dest_right |-> WinWidth - 1,
      dest_bottom |-> WinHeight, width |-> WinWidth, data |-> WinWidth * WinHeight],
     [dest_left |-> 0, dest_top |-> 0, dest_right |-> WinWidth - 1,
      dest_bottom |-> WinHeight - 1, width |-> WinWidth, data |-> DecompressError]}

\* what one guard.read(..) can meet on the stream: a bitmap update, another
\* event, the server's disconnect, a PDU refused with an RdpError of another
\* kind, a PDU refused with an error that is not the RdpError variant
PduKinds == {"Bitmap", "Other", "Disconnect", "RdpError", "OtherError"}

\* fast_bitmap_transfer(buffer, width, bitmap) on a buffer of WinWidth *
\* WinHeight pixels: its result
fast_bitmap_transfer(bitmap) ==
    IF bitmap.data = DecompressError THEN "RleDecode"
    ELSE IF bitmap.dest_bottom < bitmap.dest_top \/ bitmap.dest_right < bitmap.dest_left
         THEN "panic"
    ELSE LET row_count == bitmap.dest_right - bitmap.dest_left + 1
             refused == {i \in 0..(bitmap.dest_bottom - bitmap.dest_top) :
                          LET dest_i == (i + bitmap.dest_top) * WinWidth + bitmap.dest_left
                              src_i == i * bitmap.width
                          IN \/ dest_i > WinWidth * WinHeight
                             \/ dest_i + row_count > WinWidth * WinHeight
                             \/ src_i > bitmap.data
                             \/ src_i + row_count > bitmap.data}
         IN IF refused # {} THEN "InvalidSize" ELSE "Ok"

MstscIdle ==
    /\ sync = FALSE /\ rdp_client = "free" /\ session = "none"
    /\ bitmap_channel = <<>> /\ senderAlive = FALSE /\ receiverAlive = FALSE
    /\ socket = <<>> /\ sent = 0 /\ peerClosed = FALSE
    /\ rdpPc = "idle" /\ lastRead = "none"
    /\ guiPc = "idle" /\ windowOpen = FALSE /\ lastTransfer = "none"
    /\ mainPc = "idle" /\ received = <<>> /\ applied = <<>>

\* main, lines 491-501: the channel, the mutex, the flag and the spawned thread
MstscInit ==
    /\ sync = TRUE /\ rdp_client = "free" /\ session = "connected"
    /\ bitmap_channel = <<>> /\ senderAlive = TRUE /\ receiverAlive = TRUE
    /\ socket = <<>> /\ sent = 0 /\ peerClosed = FALSE
    /\ rdpPc = "wait" /\ lastRead = "none"
    /\ guiPc = "while" /\ windowOpen = TRUE /\ lastTransfer = "none"
    /\ mainPc = "main_gui_loop" /\ received = <<>> /\ applied = <<>>

\* the process lives until main returns or panics
ProcessAlive == mainPc \in {"main_gui_loop", "join"}

\* what the thread of launch_rdp_thread leaves alone
rdpThreadFrame == <<session, sent, peerClosed, guiPc, windowOpen, lastTransfer, mainPc, applied>>

\* select() reports the descriptor readable
Readable == socket # <<>> \/ peerClosed

\* line 288, wait_for_fd(handle): select() returns 1
WaitForFd ==
    /\ UNCHANGED mstscFrame
    /\ ProcessAlive /\ rdpPc = "wait"
    /\ Readable
    /\ rdpPc' = "load"
    /\ UNCHANGED <<sync, rdp_client, bitmap_channel, senderAlive, receiverAlive, socket,
                   lastRead, received>>
    /\ UNCHANGED rdpThreadFrame

\* line 288, wait_for_fd(handle): select() returns an error on the
\* descriptor of a stream that was shut down
WaitForFdFails ==
    /\ UNCHANGED mstscFrame
    /\ ProcessAlive /\ rdpPc = "wait"
    /\ session = "shutdown"
    /\ rdpPc' = "exit"
    /\ UNCHANGED <<sync, rdp_client, bitmap_channel, senderAlive, receiverAlive, socket,
                   lastRead, received>>
    /\ UNCHANGED rdpThreadFrame

\* line 288, sync.load(Ordering::Relaxed)
LoadSync ==
    /\ UNCHANGED mstscFrame
    /\ ProcessAlive /\ rdpPc = "load"
    /\ rdpPc' = IF sync THEN "lock" ELSE "exit"
    /\ UNCHANGED <<sync, rdp_client, bitmap_channel, senderAlive, receiverAlive, socket,
                   lastRead, received>>
    /\ UNCHANGED rdpThreadFrame

\* rdp_client.lock() that does not wait for the owner
RdpLock_NoWait ==
    /\ UNCHANGED mstscFrame
    /\ ProcessAlive /\ rdpPc = "lock"
    /\ rdp_client' = "rdp_thread"
    /\ rdpPc' = "read"
    /\ UNCHANGED <<sync, bitmap_channel, senderAlive, receiverAlive, socket, lastRead, received>>
    /\ UNCHANGED rdpThreadFrame

\* line 289, rdp_client.lock().unwrap()
RdpLock ==
    /\ UNCHANGED mstscFrame
    /\ ProcessAlive /\ rdpPc = "lock"
    /\ rdp_client = "free"
    /\ rdp_client' = "rdp_thread"
    /\ rdpPc' = "read"
    /\ UNCHANGED <<sync, bitmap_channel, senderAlive, receiverAlive, socket, lastRead, received>>
    /\ UNCHANGED rdpThreadFrame

\* lines 290-303 on a read that met outcome kind: continue to the end of the
\* iteration, or break
AfterRead(kind) == IF kind \in {"Disconnect", "RdpError"} THEN "break" ELSE "unlock"

\* lines 290-295, guard.read(callback): one PDU is read and its event handed
\* to the callback; at the end of the stream the read fails, with an error
\* of either variant
RdpRead ==
    /\ UNCHANGED mstscFrame
    /\ ProcessAlive /\ rdpPc = "read"
    /\ IF socket # <<>> THEN
           LET pdu == Head(socket) IN
           /\ socket' = Tail(socket)
           /\ lastRead' = pdu.kind
           /\ IF pdu.kind = "Bitmap" THEN
                  IF receiverAlive THEN
                      /\ bitmap_channel' = Append(bitmap_channel, pdu.bitmap)
                      /\ received' = Append(received, pdu.bitmap.id)
                      /\ rdpPc' = "unlock"
                      /\ UNCHANGED <<rdp_client, senderAlive>>
                  ELSE
                      \* send(..).unwrap() on a channel without receiver
                      /\ rdpPc' = "panicked"
                      /\ rdp_client' = "free"
                      /\ senderAlive' = FALSE
                      /\ UNCHANGED <<bitmap_channel, received>>
              ELSE
                  /\ rdpPc' = AfterRead(pdu.kind)
                  /\ UNCHANGED <<rdp_client, bitmap_channel, senderAlive, received>>
       ELSE
           /\ \E kind \in {"RdpError", "OtherError"} :
                  /\ lastRead' = kind
                  /\ rdpPc' = AfterRead(kind)
           /\ UNCHANGED <<socket, rdp_client, bitmap_channel, senderAlive, received>>
    /\ UNCHANGED <<sync, receiverAlive>>
    /\ UNCHANGED rdpThreadFrame

\* an iteration that keeps its guard into the next wait
RdpUnlock_KeepsGuard ==
    /\ UNCHANGED mstscFrame
    /\ ProcessAlive /\ rdpPc = "unlock"
    /\ rdpPc' = "wait"
    /\ UNCHANGED <<sync, rdp_client, bitmap_channel, senderAlive, receiverAlive, socket,
                   lastRead, received>>
    /\ UNCHANGED rdpThreadFrame

\* line 304: the guard goes out of scope at the end of the iteration
RdpUnlock ==
    /\ UNCHANGED mstscFrame
    /\ ProcessAlive /\ rdpPc = "unlock"
    /\ rdp_client' = "free"
    /\ rdpPc' = "wait"
    /\ UNCHANGED <<sync, bitmap_channel, senderAlive, receiverAlive, socket, lastRead, received>>
    /\ UNCHANGED rdpThreadFrame

\* lines 296-302: the message is printed and break leaves the loop, which
\* drops the guard
RdpBreak ==
    /\ UNCHANGED mstscFrame
    /\ ProcessAlive /\ rdpPc = "break"
    /\ rdp_client' = "free"
    /\ rdpPc' = "exit"
    /\ UNCHANGED <<sync, bitmap_channel, senderAlive, receiverAlive, socket, lastRead, received>>
    /\ UNCHANGED rdpThreadFrame

\* line 305: the closure returns and drops bitmap_channel
RdpExit ==
    /\ UNCHANGED mstscFrame
    /\ ProcessAlive /\ rdpPc = "exit"
    /\ senderAlive' = FALSE
    /\ rdpPc' = "done"
    /\ UNCHANGED <<sync, rdp_client, bitmap_channel, receiverAlive, socket, lastRead, received>>
    /\ UNCHANGED rdpThreadFrame

RdpThreadNext ==
    WaitForFd \/ WaitForFdFails \/ LoadSync \/ RdpLock \/ RdpRead \/ RdpUnlock
    \/ RdpBreak \/ RdpExit

(***************************************************************************)
(* bin/mstsc-rs.rs : main_gui_loop and main                                *)
(***************************************************************************)
InGuiLoop == ProcessAlive /\ mainPc = "main_gui_loop"

\* what main_gui_loop leaves alone
guiFrame == <<socket, sent, peerClosed, rdpPc, lastRead, received>>

\* a `?` of main_gui_loop returns the error to main, whose unwrap() at line
\* 504 panics: the process ends; a guard held at that point is dropped
GuiFails ==
    /\ guiPc' = "returned"
    /\ mainPc' = "panicked"
    /\ receiverAlive' = FALSE
    /\ rdp_client' = IF rdp_client = "main" THEN "free" ELSE rdp_client

\* line 330
GuiWhile ==
    /\ UNCHANGED mstscFrame
    /\ InGuiLoop /\ guiPc = "while"
    /\ guiPc' = IF windowOpen /\ sync THEN "try_recv" ELSE "store"
    /\ UNCHANGED <<sync, rdp_client, session, bitmap_channel, senderAlive, receiverAlive,
                   windowOpen, lastTransfer, mainPc, applied>>
    /\ UNCHANGED guiFrame

\* try_recv() that hands out the bitmap sent last
ChannelTake_Newest(ch) == [bitmap |-> ch[Len(ch)], rest |-> SubSeq(ch, 1, Len(ch) - 1)]

\* try_recv() on a channel that holds a bitmap
ChannelTake(ch) == [bitmap |-> Head(ch), rest |-> Tail(ch)]

\* line 336, fast_bitmap_transfer(..)? returned an error
TransferFailure == GuiFails

\* lines 335-342
TryRecv ==
    /\ UNCHANGED mstscFrame
    /\ InGuiLoop /\ guiPc = "try_recv"
    /\ IF bitmap_channel # <<>> THEN
           LET taken == ChannelTake(bitmap_channel)
               transfer == fast_bitmap_transfer(taken.bitmap)
           IN /\ bitmap_channel' = taken.rest
              /\ applied' = Append(applied, taken.bitmap.id)
              /\ lastTransfer' = transfer
              /\ IF transfer = "Ok"
                 THEN /\ guiPc' = "frame_time"
                      /\ UNCHANGED <<rdp_client, receiverAlive, mainPc>>
                 ELSE TransferFailure
              /\ UNCHANGED sync
       ELSE
           /\ sync' = IF senderAlive THEN sync ELSE FALSE
           /\ guiPc' = "mouse"
           /\ UNCHANGED <<bitmap_channel, applied, lastTransfer, rdp_client,
                          receiverAlive, mainPc>>
    /\ UNCHANGED <<session, senderAlive, windowOpen>>
    /\ UNCHANGED guiFrame

\* line 334, now.elapsed().as_micros() < 16600 * 2 after a transfer
FrameTime ==
    /\ UNCHANGED mstscFrame
    /\ InGuiLoop /\ guiPc = "frame_time"
    /\ \E elapsed \in BOOLEAN : guiPc' = IF elapsed THEN "mouse" ELSE "try_recv"
    /\ UNCHANGED <<sync, rdp_client, session, bitmap_channel, senderAlive, receiverAlive,
                   windowOpen, lastTransfer, mainPc, applied>>
    /\ UNCHANGED guiFrame

\* line 346, window.get_mouse_pos(MouseMode::Clamp)
MousePos ==
    /\ UNCHANGED mstscFrame
    /\ InGuiLoop /\ guiPc = "mouse"
    /\ \E inside \in BOOLEAN : guiPc' = IF inside THEN "mouse_lock" ELSE "keys"
    /\ UNCHANGED <<sync, rdp_client, session, bitmap_channel, senderAlive, receiverAlive,
                   windowOpen, lastTransfer, mainPc, applied>>
    /\ UNCHANGED guiFrame

\* line 372-373, window.get_keys()
Keys ==
    /\ UNCHANGED mstscFrame
    /\ InGuiLoop /\ guiPc = "keys"
    /\ \E pressed \in BOOLEAN : guiPc' = IF pressed THEN "key_lock" ELSE "update"
    /\ UNCHANGED <<sync, rdp_client, session, bitmap_channel, senderAlive, receiverAlive,
                   windowOpen, lastTransfer, mainPc, applied>>
    /\ UNCHANGED guiFrame

\* the position after each lock() of main_gui_loop
GuiLocked(pc) ==
    IF pc = "mouse_lock" THEN "mouse_write"
    ELSE IF pc = "key_lock" THEN "key_write"
    ELSE "shutdown"

\* lines 347, 374 and 402, rdp_client.lock()
GuiLock ==
    /\ UNCHANGED mstscFrame
    /\ InGuiLoop /\ guiPc \in {"mouse_lock", "key_lock", "shutdown_lock"}
    /\ rdp_client = "free"
    /\ rdp_client' = "main"
    /\ guiPc' = GuiLocked(guiPc)
    /\ UNCHANGED <<sync, session, bitmap_channel, senderAlive, receiverAlive,
                   windowOpen, lastTransfer, mainPc, applied>>
    /\ UNCHANGED guiFrame

\* lines 355-368 and 376-391: try_write(..)? under the guard, which is dropped
\* at the end of the block
TryWrite ==
    /\ UNCHANGED mstscFrame
    /\ InGuiLoop /\ guiPc \in {"mouse_write", "key_write"}
    /\ \E ok \in BOOLEAN :
          IF ok THEN /\ guiPc' = IF guiPc = "mouse_write" THEN "keys" ELSE "update"
                     /\ rdp_client' = "free"
                     /\ UNCHANGED <<receiverAlive, mainPc>>
          ELSE GuiFails
    /\ UNCHANGED <<sync, session, bitmap_channel, senderAlive, windowOpen, lastTransfer, applied>>
    /\ UNCHANGED guiFrame

\* lines 396-398, window.update_with_buffer(..)?
UpdateWindow ==
    /\ UNCHANGED mstscFrame
    /\ InGuiLoop /\ guiPc = "update"
    /\ \E ok \in BOOLEAN :
          IF ok THEN /\ guiPc' = "while"
                     /\ UNCHANGED <<rdp_client, receiverAlive, mainPc>>
          ELSE GuiFails
    /\ UNCHANGED <<sync, session, bitmap_channel, senderAlive, windowOpen, lastTransfer, applied>>
    /\ UNCHANGED guiFrame

\* line 401
StoreSync ==
    /\ UNCHANGED mstscFrame
    /\ InGuiLoop /\ guiPc = "store"
    /\ sync' = FALSE
    /\ guiPc' = "shutdown_lock"
    /\ UNCHANGED <<rdp_client, session, bitmap_channel, senderAlive, receiverAlive,
                   windowOpen, lastTransfer, mainPc, applied>>
    /\ UNCHANGED guiFrame

\* lines 402-403 and 504: shutdown()? under the temporary guard; Ok(()) drops
\* the receiver and brings main to the join
Shutdown ==
    /\ UNCHANGED mstscFrame
    /\ InGuiLoop /\ guiPc = "shutdown"
    /\ session' = "shutdown"
    /\ \E ok \in BOOLEAN :
          IF ok THEN /\ guiPc' = "returned"
                     /\ mainPc' = "join"
                     /\ receiverAlive' = FALSE
                     /\ rdp_client' = "free"
          ELSE GuiFails
    /\ UNCHANGED <<sync, bitmap_channel, senderAlive, windowOpen, lastTransfer, applied>>
    /\ UNCHANGED guiFrame

\* line 506, rdp_thread.join().unwrap()
Join ==
    /\ UNCHANGED mstscFrame
    /\ mainPc = "join"
    /\ rdpPc \in {"done", "panicked"}
    /\ mainPc' = IF rdpPc = "done" THEN "exited" ELSE "panicked"
    /\ UNCHANGED <<sync, rdp_client, session, bitmap_channel, senderAlive, receiverAlive,
                   guiPc, windowOpen, lastTransfer, applied>>
    /\ UNCHANGED guiFrame

GuiNext ==
    GuiWhile \/ TryRecv \/ FrameTime \/ MousePos \/ Keys \/ GuiLock \/ TryWrite
    \/ UpdateWindow \/ StoreSync \/ Shutdown \/ Join

(***************************************************************************)
(* bin/mstsc-rs.rs : the server and the user                               *)
(***************************************************************************)
\* what the server and the user leave alone
envFrame == <<sync, rdp_client, session, bitmap_channel, senderAlive, receiverAlive,
              rdpPc, lastRead, guiPc, lastTransfer, mainPc, received, applied>>

\* one more PDU arrives on the stream
ServerSend ==
    /\ UNCHANGED mstscFrame
    /\ ProcessAlive /\ ~peerClosed /\ sent < MaxPdus
    /\ \E kind \in PduKinds :
       \E shape \in (IF kind = "Bitmap" THEN BitmapShapes ELSE {CHOOSE b \in BitmapShapes : TRUE}) :
           socket' = Append(socket,
                            [kind |-> kind,
                             bitmap |-> [id |-> sent + 1] @@ shape])
    /\ sent' = sent + 1
    /\ UNCHANGED <<peerClosed, windowOpen>>
    /\ UNCHANGED envFrame

\* the server closes the connection
PeerClose ==
    /\ UNCHANGED mstscFrame
    /\ ProcessAlive /\ ~peerClosed
    /\ peerClosed' = TRUE
    /\ UNCHANGED <<socket, sent, windowOpen>>
    /\ UNCHANGED envFrame

\* the user closes the window
CloseWindow ==
    /\ UNCHANGED mstscFrame
    /\ ProcessAlive /\ windowOpen
    /\ windowOpen' = FALSE
    /\ UNCHANGED <<socket, sent, peerClosed>>
    /\ UNCHANGED envFrame

EnvNext == ServerSend \/ PeerClose \/ CloseWindow

(***************************************************************************)
(* bin/mstsc-rs.rs : fast_bitmap_transfer, row by row                      *)
(***************************************************************************)
\* the bitmap events given to fast_bitmap_transfer on a window of WinWidth x
\* WinHeight pixels: rectangles with top <= bottom and left <= right that
\* reach at most one row and one column past the window; data is the
\* number of 32 bit pixels decompress() returns, or DecompressError
TransferEvents ==
    {e \in [dest_left : 0..WinWidth, dest_right : 0..WinWidth,
            dest_top : 0..WinHeight, dest_bottom : 0..WinHeight,
            width : 1..WinWidth,
            data : {DecompressError} \cup 0..(WinWidth * WinHeight)] :
        /\ e.dest_left <= e.dest_right /\ e.dest_top <= e.dest_bottom
        /\ e.data \in {DecompressError, e.width * (e.dest_bottom - e.dest_top + 1),
                       e.width * (e.dest_bottom - e.dest_top)}}

NoEvent == [dest_left |-> 0, dest_right |-> 0, dest_top |-> 0, dest_bottom |-> 0,
            width |-> 0, data |-> 0]

TransferIdle ==
    /\ bitmapEvent = NoEvent /\ frameBuffer = <<>> /\ copied = {}
    /\ transferRow = 0 /\ transferPc = "idle" /\ transferResult = "pending"

\* lines 68-73 and 323: the call, on the window buffer vec![0; width * height]
TransferInit ==
    \E e \in TransferEvents :
        /\ bitmapEvent = e
        /\ frameBuffer = [c \in 0..(WinWidth * WinHeight - 1) |-> 0]
        /\ copied = {}
        /\ transferRow = 0 /\ transferPc = "decompress" /\ transferResult = "pending"

\* line 75, bitmap.decompress()?
Decompress ==
    /\ UNCHANGED transferFrame
    /\ transferPc = "decompress"
    /\ IF bitmapEvent.data = DecompressError
       THEN transferResult' = "RleDecode" /\ transferPc' = "done"
       ELSE transferPc' = "for" /\ UNCHANGED transferResult
    /\ UNCHANGED <<bitmapEvent, frameBuffer, copied, transferRow>>

\* the rows of the for loop of line 81
TransferRows == bitmapEvent.dest_bottom - bitmapEvent.dest_top + 1

\* the test of lines 85-88 on a buffer of buflen and data of datalen pixels
TransferRefused(dest_i, src_i, cnt, buflen, datalen) ==
    \/ dest_i > buflen
    \/ dest_i + cnt > buflen
    \/ src_i > datalen
    \/ src_i + cnt > datalen

\* lines 81-97: one turn of the for loop, which returns InvalidSize or
\* copies cnt pixels from data_aligned[src_i..] to buffer[dest_i..]; a cell of
\* frameBuffer holds 1 + the index of the data pixel copied into it
CopyRow ==
    /\ UNCHANGED transferFrame
    /\ transferPc = "for"
    /\ transferRow < TransferRows
    /\ LET dest_i == (transferRow + bitmapEvent.dest_top) * WinWidth + bitmapEvent.dest_left
           src_i == transferRow * bitmapEvent.width
           cnt == bitmapEvent.dest_right - bitmapEvent.dest_left + 1
       IN IF TransferRefused(dest_i, src_i, cnt, WinWidth * WinHeight, bitmapEvent.data)
          THEN /\ transferResult' = "InvalidSize"
               /\ transferPc' = "done"
               /\ UNCHANGED <<frameBuffer, copied, transferRow>>
          ELSE /\ frameBuffer' = [c \in DOMAIN frameBuffer |->
                                    IF c >= dest_i /\ c < dest_i + cnt
                                    THEN 1 + src_i + (c - dest_i) ELSE frameBuffer[c]]
               /\ copied' = copied \cup {[i |-> transferRow, dest_i |-> dest_i,
                                          src_i |-> src_i, count |-> cnt]}
               /\ transferRow' = transferRow + 1
               /\ UNCHANGED <<transferPc, transferResult>>
    /\ UNCHANGED bitmapEvent

\* line 100: Ok(()) after the last row
TransferOk ==
    /\ UNCHANGED transferFrame
    /\ transferPc = "for"
    /\ transferRow >= TransferRows
    /\ transferResult' = "Ok"
    /\ transferPc' = "done"
    /\ UNCHANGED <<bitmapEvent, frameBuffer, copied, transferRow>>

TransferNext == Decompress \/ CopyRow \/ TransferOk

(***************************************************************************)
(* bin/mstsc-rs.rs : the keyboard block of main_gui_loop                   *)
(***************************************************************************)
\* ---- bound of the explored keyboards ----
MaxKeys == 3

\* the keys of the keyboard
KeySet == 1..MaxKeys

KeyIdle ==
    /\ keys = {} /\ last_keys = {} /\ keysDown = {} /\ keyWrites = <<>>
    /\ keyPc = "idle"

\* line 327: let mut last_keys = vec![]; no key is held and nothing was sent
KeyInit ==
    /\ keys = {} /\ last_keys = {} /\ keysDown = {} /\ keyWrites = <<>>
    /\ keyPc = "frame"

\* the events of lines 376-389 in the order they are written: key-up for the
\* keys of last that are not in cur, key-down for the keys of cur that
\* is_key_pressed reports; sets are walked in key order
RECURSIVE KeyEventsOf(_, _, _)
KeyEventsOf(ks, isDown, k) ==
    IF k > MaxKeys THEN <<>>
    ELSE (IF k \in ks THEN <<[code |-> k, down |-> isDown]>> ELSE <<>>)
         \o KeyEventsOf(ks, isDown, k + 1)

\* lines 370-392: the keyboard block of one frame. get_keys() returns the
\* keys held; is_key_pressed(key, KeyRepeat::Yes) holds for the keys that
\* went down since the last frame and, when they repeat, for keys held longer;
\* a try_write that fails returns from main_gui_loop
KeyboardBlock ==
    /\ UNCHANGED keyFrame
    /\ keyPc = "frame"
    /\ \E cur \in SUBSET KeySet :
       \E repeating \in SUBSET (cur \cap keys) :
       \E ok \in BOOLEAN :
        LET pressedNow == (cur \ keys) \cup repeating
            ups == last_keys \ cur
            writes == KeyEventsOf(ups, FALSE, 1) \o KeyEventsOf(pressedNow, TRUE, 1)
        IN
        /\ keys' = cur
        /\ IF cur = {} THEN
               /\ keyWrites' = <<>>
               /\ UNCHANGED <<last_keys, keysDown, keyPc>>
           ELSE IF ok \/ writes = <<>> THEN
               /\ keyWrites' = writes
               /\ keysDown' = (keysDown \ ups) \cup pressedNow
               /\ last_keys' = cur
               /\ UNCHANGED keyPc
           ELSE
               /\ keyWrites' = <<>>
               /\ keyPc' = "failed"
               /\ UNCHANGED <<last_keys, keysDown>>

KeyNext == KeyboardBlock

(***************************************************************************)
(* Specifications, one per component                                       *)
(***************************************************************************)
LicNext == PreambleRead \/ ParsePayload \/ ClientConnectMatch

InitLicense ==
    /\ LicInit /\ R16Idle /\ R32Idle /\ RgbIdle /\ UniIdle /\ GccIdle /\ CcrIdle /\ MstscIdle
    /\ TransferIdle /\ KeyIdle

NextLicense == LicNext

SpecLicense == InitLicense /\ [][NextLicense]_vars

R16Next == OuterIteration \/ OuterExit \/ RunIteration \/ RunExit \/ RepeatStep \/ RepeatExit

InitRle16 ==
    /\ R16Init /\ LicIdle /\ R32Idle /\ RgbIdle /\ UniIdle /\ GccIdle /\ CcrIdle /\ MstscIdle
    /\ TransferIdle /\ KeyIdle

NextRle16 == R16Next

SpecRle16 == InitRle16 /\ [][NextRle16]_vars

InitRle32 ==
    /\ R32Init /\ LicIdle /\ R16Idle /\ RgbIdle /\ UniIdle /\ GccIdle /\ CcrIdle /\ MstscIdle
    /\ TransferIdle /\ KeyIdle

NextRle32 == R32Next

SpecRle32 == InitRle32 /\ [][NextRle32]_vars

InitRle32Damaged ==
    /\ R32InitDamaged /\ LicIdle /\ R16Idle /\ RgbIdle /\ UniIdle /\ GccIdle /\ CcrIdle
    /\ MstscIdle /\ TransferIdle /\ KeyIdle

SpecRle32Damaged == InitRle32Damaged /\ [][NextRle32]_vars

InitRgb ==
    /\ RgbInit /\ LicIdle /\ R16Idle /\ R32Idle /\ UniIdle /\ GccIdle /\ CcrIdle /\ MstscIdle
    /\ TransferIdle /\ KeyIdle

NextRgb == RgbNext

SpecRgb == InitRgb /\ [][NextRgb]_vars

InitUnicode ==
    /\ UniInit /\ LicIdle /\ R16Idle /\ R32Idle /\ RgbIdle /\ GccIdle /\ CcrIdle /\ MstscIdle
    /\ TransferIdle /\ KeyIdle

NextUnicode == UniNext

SpecUnicode == InitUnicode /\ [][NextUnicode]_vars

InitGcc ==
    /\ GccInit /\ LicIdle /\ R16Idle /\ R32Idle /\ RgbIdle /\ UniIdle /\ CcrIdle /\ MstscIdle
    /\ TransferIdle /\ KeyIdle

NextGcc == GccNext

SpecGcc == InitGcc /\ [][NextGcc]_vars

InitGccRequest ==
    /\ CcrInit /\ LicIdle /\ R16Idle /\ R32Idle /\ RgbIdle /\ UniIdle /\ GccIdle
    /\ MstscIdle /\ TransferIdle /\ KeyIdle

NextGccRequest == CcrNext

SpecGccRequest == InitGccRequest /\ [][NextGccRequest]_vars

InitMstsc ==
    /\ MstscInit /\ LicIdle /\ R16Idle /\ R32Idle /\ RgbIdle /\ UniIdle /\ GccIdle
    /\ CcrIdle /\ TransferIdle /\ KeyIdle

NextMstsc ==
    \/ WaitForFd \/ WaitForFdFails \/ LoadSync \/ RdpLock \/ RdpRead \/ RdpUnlock
    \/ RdpBreak \/ RdpExit
    \/ GuiWhile \/ TryRecv \/ FrameTime \/ MousePos \/ Keys \/ GuiLock \/ TryWrite
    \/ UpdateWindow \/ StoreSync \/ Shutdown \/ Join
    \/ ServerSend \/ PeerClose \/ CloseWindow

SpecMstsc == InitMstsc /\ [][NextMstsc]_vars

\* the steps a running thread takes by itself: every step of the two threads
\* but the lock requests, which wait for the owner, and the wait for the
\* descriptor, which waits for the server
RdpThreadRuns == LoadSync \/ RdpRead \/ RdpUnlock \/ RdpBreak \/ RdpExit
GuiThreadRuns ==
    GuiWhile \/ TryRecv \/ FrameTime \/ MousePos \/ Keys \/ TryWrite \/ UpdateWindow
    \/ StoreSync \/ Shutdown \/ Join

\* both threads are scheduled; select() returns once the descriptor is
\* readable; a lock request is granted when the mutex is free again and again
FairMstsc ==
    /\ WF_vars(RdpThreadRuns)
    /\ WF_vars(GuiThreadRuns)
    /\ WF_vars(WaitForFd)
    /\ SF_vars(RdpLock)
    /\ SF_vars(GuiLock)

SpecMstscFair == InitMstsc /\ [][NextMstsc]_vars /\ FairMstsc

InitTransfer ==
    /\ TransferInit /\ LicIdle /\ R16Idle /\ R32Idle /\ RgbIdle /\ UniIdle /\ GccIdle
    /\ CcrIdle /\ MstscIdle /\ KeyIdle

SpecTransfer == InitTransfer /\ [][TransferNext]_vars

InitKeys ==
    /\ KeyInit /\ LicIdle /\ R16Idle /\ R32Idle /\ RgbIdle /\ UniIdle /\ GccIdle
    /\ CcrIdle /\ MstscIdle /\ TransferIdle

SpecKeys == InitKeys /\ [][KeyNext]_vars

(***************************************************************************)
(* Properties of core/license.rs                                           *)
(***************************************************************************)
\* The stream holds a complete preamble: flag 0x03, wMsgSize >= 4 and the
\* wMsgSize - 4 body bytes are all there.
LicWellFormedPreamble ==
    /\ licIn.f = Version30
    /\ licIn.size >= 4
    /\ Len(licStream) >= licIn.size

\* The body sent is a whole licensing error message (both fields and the
\* blob with its wBlobLen data bytes).
LicWholeErrorBody == licIn.n = 12 + licIn.bl

\* The accept set of the licensing section
LicAcceptSet ==
    /\ LicWellFormedPreamble
    /\ \/ licIn.t = MT_NewLicense
       \/ /\ licIn.t = MT_ErrorAlert
          /\ LicWholeErrorBody
          /\ licIn.ec = StatusValidClient
          /\ licIn.st = NoTransition

\* C1: client_connect returns Ok exactly when the preamble (flag 0x03,
\* wMsgSize >= 4, body available) is a NewLicense, or an ErrorAlert whose
\* body is a licensing error message with dwErrorCode = 0x07 and
\* dwStateTransition = 0x02; every other such preamble yields an error value.
C1_OkExactlyOnAcceptSet ==
    licPc = "done" =>
        /\ (licResult = "Ok") <=> LicAcceptSet
        /\ (LicWellFormedPreamble /\ ~LicAcceptSet) => licResult \in LicErrorResults

C1_Witness ==
    /\ licPc = "done" /\ licResult = "Ok"
    /\ licIn.t = MT_ErrorAlert /\ licIn.ec = StatusValidClient /\ licIn.st = NoTransition

LicRejectKind ==
    IF licIn.t \notin MessageTypeValues THEN "TryFromPrimitive"
    ELSE IF licIn.t # MT_ErrorAlert THEN "NotImplemented"
    ELSE IF ~LicWholeErrorBody THEN "Io"
    ELSE IF licIn.ec \notin ErrorCodeValues THEN "TryFromPrimitive"
    ELSE IF licIn.ec # StatusValidClient THEN "InvalidRespond"
    ELSE IF licIn.st \notin StateTransitionValues THEN "TryFromPrimitive"
    ELSE "InvalidRespond"

C3_ValidClientOtherTransitionRejected ==
    ( /\ licPc = "done" /\ LicWellFormedPreamble
      /\ licIn.t = MT_ErrorAlert /\ LicWholeErrorBody
      /\ licIn.ec = StatusValidClient
      /\ licIn.st \in {TotalAbort, ResetPhaseToStart, ResendLastMessage} )
    => licResult = "InvalidRespond"

C3_Witness ==
    /\ licPc = "done" /\ LicWellFormedPreamble
    /\ licIn.t = MT_ErrorAlert /\ LicWholeErrorBody
    /\ licIn.ec = StatusValidClient /\ licIn.st = TotalAbort
    /\ licResult = "InvalidRespond"

(***************************************************************************)
(* Properties of codec/rle.rs : rle_16_decompress                          *)
(***************************************************************************)
\* C4: for every input, width and height, with an output of width * height
\* pixels, the decoder never indexes output outside [0, width * height) (an
\* access outside the slice aborts the call), and a finished call has
\* returned Ok or an error value.
C4_NoIndexOutsideBuffer ==
    /\ r16Result # "panic"
    /\ r16Pc = "done" => r16Result \in {"Ok", "RleDecode", "Io"}
    /\ r16Pc = "repeat" /\ (unroll > 0 \/ RepeatTailTest(count, x, width)) =>
          /\ R16InBounds(line + x)
          /\ prevline # NoLine => R16InBounds(prevline + x)

\* the whole image of the largest explored height was produced, up to the
\* last pixel of the top row
C4_Witness ==
    /\ r16Pc = "done" /\ r16Result = "Ok"
    /\ width > 0 /\ height0 = MaxHeight
    /\ height = 0 /\ x = width /\ line = 0 /\ prevline = width

\* a run that still has pixels to emit with the cursor at the right edge and
\* no row left
R16RunPastLastRow ==
    /\ r16Pc \in {"run", "repeat"}
    /\ count > 0 /\ x >= width /\ height = 0

\* C5: whenever a run still has count > 0, the cursor is at the right edge
\* and no rows remain, the decode fails with RleDecode and writes no further
\* pixel.
C5_HeightExhaustedIsError ==
    [][R16RunPastLastRow =>
        /\ output' = output
        /\ \/ r16Pc' = "done" /\ r16Result' = "RleDecode"
           \/ r16Pc = "repeat" /\ r16Pc' = "run" /\ R16RunPastLastRow']_vars

\* the failure happened after pixels were written, in the middle of a run
C5_Witness ==
    /\ r16Pc = "done" /\ r16Result = "RleDecode"
    /\ count > 0 /\ x >= width /\ height = 0
    /\ width > 0 /\ height0 > 0 /\ opcode \in R16RunOpcodes

(***************************************************************************)
(* Properties of codec/rle.rs : rle_32_decompress                          *)
(***************************************************************************)
\* C6: rle_32_decompress fails with RleDecode whenever the first input byte
\* is not 0x10 and leaves the output as it was; an empty input fails as well
\* without modifying the output.
C6_BadHeaderRejected ==
    /\ (r32Pc # "idle" /\ Len(input32) > 0 /\ input32[1] # 16) =>
          /\ r32Pc \in {"header", "done"}
          /\ r32Pc = "done" => r32Result = "RleDecode"
          /\ output32 = initial32
    /\ (r32Pc # "idle" /\ Len(input32) = 0) =>
          /\ r32Pc \in {"header", "done"}
          /\ r32Pc = "done" => r32Result \in {"Io", "RleDecode"}
          /\ output32 = initial32

\* a call on a non-empty image with a wrong first byte has returned
C6_Witness ==
    /\ r32Pc = "done" /\ r32Result = "RleDecode"
    /\ Len(input32) > 1 /\ input32[1] = 17
    /\ width32 * height32 > 0 /\ output32 = initial32

\* C7: for every width >= 1, height >= 1 and every image, rle_32_decompress
\* applied to the reference encoding of the image returns Ok and leaves
\* exactly the bytes of the image in the output.
C7_ReferenceRoundTrip ==
    ( /\ r32Pc = "done"
      /\ width32 >= 1 /\ height32 >= 1
      /\ input32 = RefEncode(pixels32, width32, height32) )
    => /\ r32Result = "Ok"
       /\ output32 = pixels32

\* a decoded image of two rows whose rows differ and whose bottom row holds
\* both pixel values
C7_Witness ==
    /\ r32Pc = "done" /\ r32Result = "Ok"
    /\ width32 = MaxWidth32 /\ height32 = 2
    /\ input32 = RefEncode(pixels32, width32, height32)
    /\ output32 = pixels32
    /\ output32 # initial32
    /\ pixels32[0] # pixels32[width32 * 4]
    /\ pixels32[width32 * 4] # pixels32[width32 * 4 + 4]

(***************************************************************************)
(* Properties of codec/rle.rs : rgb565torgb32                              *)
(***************************************************************************)
\* C8: for every sequence of 16-bit pixels rgb565torgb32 returns exactly
\* 4 * len(input) bytes, and every byte at an index congruent to 3 modulo 4
\* is 0xFF.
C8_LengthAndAlpha ==
    rgbPc = "done" =>
        /\ Len(rgbOutput) = 4 * Len(rgbInput)
        /\ \A i \in 1..Len(rgbOutput) : (i - 1) % 4 = 3 => rgbOutput[i] = 255

\* a returned vector for the longest input, with a colour byte that is not 0xFF
C8_Witness ==
    /\ rgbPc = "done"
    /\ Len(rgbInput) = MaxPixels
    /\ Len(rgbOutput) = 4 * MaxPixels
    /\ rgbOutput[4] = 255 /\ rgbOutput[1] # 255

(***************************************************************************)
(* Properties of model/unicode.rs                                          *)
(***************************************************************************)
\* the UTF-16 code units of a string, by the definition of UTF-16
RECURSIVE Utf16Units(_)
Utf16Units(str) ==
    IF str = <<>> THEN <<>>
    ELSE LET c == Head(str) IN
         (IF c < 65536 THEN <<c>>
          ELSE <<55296 + ((c - 65536) \div 1024), 56320 + ((c - 65536) % 1024)>>)
         \o Utf16Units(Tail(str))

\* UTF-16LE decoding of a byte sequence: the code units of the byte pairs,
\* surrogate pairs joined; -1 stands for an undecodable unit
RECURSIVE DecodeUnits(_)
DecodeUnits(units) ==
    IF units = <<>> THEN <<>>
    ELSE LET u == Head(units) IN
         IF u >= 55296 /\ u <= 56319 THEN
             IF Len(units) >= 2 /\ units[2] >= 56320 /\ units[2] <= 57343
             THEN <<65536 + (u - 55296) * 1024 + (units[2] - 56320)>>
                  \o DecodeUnits(Tail(Tail(units)))
             ELSE <<-1>> \o DecodeUnits(Tail(units))
         ELSE IF u >= 56320 /\ u <= 57343 THEN <<-1>> \o DecodeUnits(Tail(units))
         ELSE <<u>> \o DecodeUnits(Tail(units))

DecodeUtf16Le(bytes) ==
    IF Len(bytes) % 2 # 0 THEN <<-1>>
    ELSE DecodeUnits([k \in 1..(Len(bytes) \div 2) |-> bytes[2 * k - 1] + 256 * bytes[2 * k]])

\* C9: to_utf16_le emits, for each UTF-16 code unit of the string in order,
\* its low byte then its high byte: "foo" gives [102, 0, 111, 0, 111, 0], the
\* output is twice as long as the number of code units, and decoding it as
\* UTF-16LE yields the original string.
C9_Utf16LeRoundTrip ==
    uniPc = "done" =>
        /\ Len(uniOut) = 2 * Len(Utf16Units(uniStr))
        /\ \A k \in 1..Len(Utf16Units(uniStr)) :
              /\ uniOut[2 * k - 1] = Utf16Units(uniStr)[k] % 256
              /\ uniOut[2 * k] = Utf16Units(uniStr)[k] \div 256
        /\ uniStr = <<102, 111, 111>> => uniOut = <<102, 0, 111, 0, 111, 0>>
        /\ DecodeUtf16Le(uniOut) = uniStr

\* a returned vector for a string with a char outside the basic plane
\* between two chars inside it
C9_Witness ==
    /\ uniPc = "done"
    /\ uniStr = <<102, 128512, 8364>>
    /\ uniOut = <<102, 0, 61, 216, 0, 222, 172, 32>>

(***************************************************************************)
(* Properties of core/gcc.rs                                               *)
(***************************************************************************)
\* the version whose declared discriminant is the wire value e
VersionDeclaring(e) ==
    IF e = RdpVersionValue THEN "RdpVersion"
    ELSE IF e = RdpVersion5plusValue THEN "RdpVersion5plus"
    ELSE "Unknown"

\* C10: read_conference_create_response reports as rdp_version the version
\* whose wire value is the rdpVersion field of the server core block:
\* 0x00080001 yields RdpVersion, 0x00080004 yields RdpVersion5plus, any other
\* value yields Unknown.
C10_VersionOfWireValue ==
    (gccPc = "done" /\ gccRet.status = "Ok") =>
        gccRet.rdp_version = VersionDeclaring(result.core.rdpVersion)

\* the loop is about to read a whole server network block
NetBlockAhead ==
    /\ gccPc = "loop"
    /\ SubLeft >= BlockHeaderLen
    /\ FromU16LE(cc_response, gccPos + 1) = ScNet
    /\ FromU16LE(cc_response, gccPos + 3) >= BlockHeaderLen + 2
    /\ SubLeft >= FromU16LE(cc_response, gccPos + 3)

\* the MCSChannelId field of that block
McsChannelIdAhead == FromU16LE(cc_response, gccPos + 5)

RECURSIVE LastNetBlock(_)
LastNetBlock(bs) ==
    IF bs[Len(bs)].type = ScNet THEN bs[Len(bs)]
    ELSE LastNetBlock(SubSeq(bs, 1, Len(bs) - 1))

\* the returned channel_ids, written back as a server network block body,
\* are the leading bytes of the last network block of the response
ChannelIdsAreWireIds ==
    (gccPc = "done" /\ gccRet.status = "Ok") =>
        LET b == LastNetBlock(gccBlocks)
            ids == gccRet.channel_ids
        IN /\ FromU16LE(b.body, 1) = McsIoChannel
           /\ Len(ids) = FromU16LE(b.body, 3)
           /\ SubSeq(b.body, 1, 4 + 2 * Len(ids)) = NetBody(McsIoChannel, Len(ids), ids)

\* C11: reading a server network block whose MCSChannelId is not 1003 ends
\* read_conference_create_response with InvalidConst and no ServerData; when
\* it returns Ok, channel_ids holds exactly the channelCount ids that follow
\* MCSChannelId = 1003 on the wire, in wire order.
C11_NetBlockCheckedAndIdsInOrder ==
    /\ [][(NetBlockAhead /\ McsChannelIdAhead # McsIoChannel) =>
             (gccPc' = "done" /\ gccRet' = [status |-> "InvalidConst"])]_vars
    /\ []ChannelIdsAreWireIds

\* a response whose first network block (ids 1004, 1005) was decoded and
\* whose later network block with MCSChannelId 1002 was refused
C11_Witness ==
    /\ gccPc = "done"
    /\ gccRet = [status |-> "InvalidConst"]
    /\ result.net.present
    /\ result.net.channelIdArray = <<1004, 1005>>
    /\ FromU16LE(cc_response, gccPos + 1) = ScNet
    /\ FromU16LE(cc_response, gccPos + 5) = 1002

\* C12: write_conference_create_request returns, for every user data, a
\* request whose PER length after the T.124 object identifier is the
\* user-data length plus 14, with no wrap-around or truncation to 16 bits, and
\* whose last two fields are the H.221 key "Duca" and the length-prefixed
\* user data.
C12_LengthIsUserDataPlus14 ==
    ccrPc = "done" =>
        /\ ccrRet = "Ok"
        /\ ccRequest[2] = PerItem("object_identifier", T124_02_98_OID, 0)
        /\ ccRequest[3] = PerItem("length", user_data.len + ConferenceOverhead, 0)
        /\ ccRequest[Len(ccRequest) - 1] = PerItem("octet_stream", H221_CS_KEY, 4)
        /\ ccRequest[Len(ccRequest)] = PerItem("octet_stream", user_data, 0)

(***************************************************************************)
(* Properties of bin/mstsc-rs.rs                                           *)
(***************************************************************************)
\* main_gui_loop is about to hand fast_bitmap_transfer a bitmap it refuses
TransferAboutToFail ==
    /\ InGuiLoop /\ guiPc = "try_recv" /\ bitmap_channel # <<>>
    /\ fast_bitmap_transfer(Head(bitmap_channel)) # "Ok"

\* C13: a bitmap whose decompression or transfer fails aborts only its frame:
\* after the failing fast_bitmap_transfer the UI loop is still running, the
\* running flag is unchanged, the session is not shut down and the process
\* goes on to later bitmap events.
C13_BitmapFailureKeepsSession ==
    [][TransferAboutToFail =>
          /\ mainPc' = "main_gui_loop"
          /\ guiPc' \in {"frame_time", "try_recv", "mouse"}
          /\ sync' = sync
          /\ session' = session]_vars

\* C14: once the thread of launch_rdp_thread has returned because its read
\* failed with Disconnect, the running flag is false: the reader cleared it
\* before returning.
C14_ReaderClearsFlagOnDisconnect ==
    (lastRead = "Disconnect" /\ rdpPc = "done") => ~sync

\* C15: after a read that failed with an error other than Disconnect, of
\* either variant, the reader loop is left: the thread is breaking out of the
\* loop or has returned, and reads no more.
C15_ReadErrorEndsReader ==
    (lastRead \in {"RdpError", "OtherError"}) => rdpPc \in {"break", "exit", "done"}

\* the reader thread has ended, or the whole process has
RdpThreadEnded == rdpPc \in {"done", "panicked"} \/ ~ProcessAlive

\* C16: once the running flag is cleared the reader thread eventually
\* terminates, so that the join of main returns.
C16_ClearedFlagEndsReader == (~sync) ~> RdpThreadEnded

\* the thread is inside read, try_write or shutdown
RdpInSession == rdpPc = "read"
GuiInSession == InGuiLoop /\ guiPc \in {"mouse_write", "key_write", "shutdown"}

\* C17: at most one thread is inside a session operation (read, try_write,
\* shutdown) at any time, and a thread inside one owns the session mutex.
C17_SessionOperationsExclusive ==
    /\ ~(RdpInSession /\ GuiInSession)
    /\ RdpInSession => rdp_client = "rdp_thread"
    /\ GuiInSession => rdp_client = "main"

\* the UI thread asks for the mutex while the reader is inside read
C17_Witness ==
    /\ RdpInSession /\ rdp_client = "rdp_thread"
    /\ InGuiLoop /\ guiPc = "mouse_lock"
    /\ socket # <<>>

RECURSIVE BitmapIds(_)
BitmapIds(ch) == IF ch = <<>> THEN <<>> ELSE <<Head(ch).id>> \o BitmapIds(Tail(ch))

\* C18: the bitmaps the UI thread hands to fast_bitmap_transfer are, in
\* order, the first bitmaps the reader thread received; while the receiver
\* lives the others are in the channel, in order: none is reordered,
\* duplicated or dropped.
C18_BitmapsInReceptionOrder ==
    /\ Len(applied) <= Len(received)
    /\ applied = SubSeq(received, 1, Len(applied))
    /\ receiverAlive => received = applied \o BitmapIds(bitmap_channel)

\* two bitmaps went through the channel while both threads ran
C18_Witness ==
    /\ received = <<1, 2>> /\ applied = <<1, 2>>
    /\ lastTransfer = "Ok" /\ InGuiLoop /\ rdpPc = "wait"

C19_WrongFlagIsInvalidConst ==
    (licPc = "done" /\ Len(licStream) >= 2 /\ licStream[2] # 3) =>
        licResult = "InvalidConst"

\* a NewLicense preamble (bMsgType 0x03) with flag 2
C19_Witness ==
    /\ licPc = "done" /\ licResult = "InvalidConst"
    /\ Len(licStream) >= 4 /\ licStream[1] = MT_NewLicense /\ licStream[2] = 2

(***************************************************************************)
(* Properties of rle_16_decompress: line wraps and the runs of each arm    *)
(***************************************************************************)
\* C21: rle_16_decompress fills the image bottom-up. Until the first line
\* wrap the cursor stands at x = width with no line and nothing is written;
\* the k-th wrap sets x to 0 (the background arm may emit its inserted pixel
\* in the same turn, leaving x = 1), the current line to row height0 - k and
\* the previous line to the row just below it, none at the first wrap; the
\* remaining height decreases by one per wrap, lines change at wraps only,
\* every pixel is written at line + x, and the first one at index
\* (height0 - 1) * width.
C21_BottomUpFill ==
    [][/\ (line = NoLine =>
              x = width /\ prevline = NoLine /\ height = height0 /\ output' = output)
       /\ (height' # height =>
              /\ r16Pc = "run" /\ x >= width
              /\ height' = height - 1
              /\ line' = height' * width
              /\ prevline' = line
              /\ (prevline' = NoLine <=> height' = height0 - 1)
              /\ (prevline' # NoLine => prevline' = line' + width)
              /\ x' \in {0, 1})
       /\ (height' = height => line' = line /\ prevline' = prevline)
       /\ (\A i \in DOMAIN output :
              output'[i] # output[i] => x' >= 1 /\ x' <= width /\ i = line' + x' - 1)
       /\ (R16Emitted = 0 /\ R16Emitted' = 1 => line' + x' - 1 = (height0 - 1) * width)
      ]_vars

\* the second wrap has happened: the line is row height0 - 2, the previous
\* line the bottom row, whose first pixel was emitted
C21_Witness ==
    /\ width > 0 /\ height0 = 2 /\ height = 0
    /\ line = 0 /\ prevline = width
    /\ output[(height0 - 1) * width] # 0

\* the step emits one pixel, at index line' + x' - 1
R16EmitsPixel == R16Emitted' = R16Emitted + 1

\* the pixel the step wrote
R16PixelWritten == output'[line' + x' - 1]

\* the background rule at the column written: prev[x], or 0 without a
\* previous line
R16PlainPixel == IF prevline' # NoLine THEN output[prevline' + x' - 1] ELSE 0

\* the mix rule at the column written: prev[x] ^ mix, or mix without a
\* previous line
R16MixedPixel == IF prevline' # NoLine THEN Xor16(output[prevline' + x' - 1], mix) ELSE mix

\* C22 as stated: every background run that immediately follows another
\* background run has its first pixel XORed with mix and its other pixels
\* written by the plain background rule (stated for the runs that begin after
\* some pixel was emitted, so that the run before them is not an empty one at
\* the head of the input).
C22_EveryFollowingBackgroundRunStartsMixed ==
    [][opcode = 0 /\ runPrev = 0 /\ runStart > 0 /\ R16EmitsPixel =>
          R16PixelWritten = IF R16Emitted = runStart THEN R16MixedPixel ELSE R16PlainPixel
      ]_vars

\* C22 (amended): a background opcode decoded right after a background run
\* arms the mix insertion unless the cursor stands at x = width with no
\* previous line (the run begins at the start of the bottom row or of the row
\* above it), and nothing else arms it; it stays armed until a background run
\* emits a pixel: the first pixel of a background run is XORed with mix
\* exactly when the insertion is armed, and every other pixel of a background
\* run follows the plain background rule.
C22_FollowingBackgroundRunStartsMixedOffTheEdge ==
    [][/\ (r16Pc = "outer" /\ r16Pc' = "run" =>
              insertmix' = \/ insertmix
                           \/ /\ opcode' = 0 /\ lastopcode = 0
                              /\ ~(x = width /\ prevline = NoLine))
       /\ (r16Pc # "outer" => insertmix' = (insertmix /\ ~(opcode = 0 /\ R16EmitsPixel)))
       /\ (opcode = 0 /\ R16EmitsPixel =>
              /\ R16PixelWritten = IF insertmix THEN R16MixedPixel ELSE R16PlainPixel
              /\ (insertmix => R16Emitted = runStart))
       /\ (opcode = 0 /\ runPrev = 0 /\ R16EmitsPixel /\ R16Emitted = runStart
              /\ runStart \notin {0, width} => R16PixelWritten = R16MixedPixel)
      ]_vars

\* the second of two background runs on the bottom row has emitted its
\* inserted pixel: mix, which is not the 0 of the plain rule
C22_Witness ==
    /\ r16Pc = "repeat" /\ opcode = 0 /\ runPrev = 0
    /\ prevline = NoLine /\ line # NoLine
    /\ R16Emitted = runStart + 1 /\ runStart \notin {0, width}
    /\ mix # 0 /\ output[line + x - 1] = mix

\* 2^n for n in 0..7
R16Bit(n) == CASE n = 0 -> 1 [] n = 1 -> 2 [] n = 2 -> 4 [] n = 3 -> 8
               [] n = 4 -> 16 [] n = 5 -> 32 [] n = 6 -> 64 [] OTHER -> 128

\* C23: in a fill-or-mix run the pixel emitted after k pixels of the run
\* consumes bit k mod 8 of the mask, least significant first; a new mask is
\* taken exactly when k is a multiple of 8 (the fixed 3 for code 0xF9, the
\* fixed 5 for code 0xFA, otherwise one byte read from the input), and the
\* mask and its bit position are kept across line wraps; a set bit emits
\* prev[x] ^ mix (mix without a previous line), a clear bit prev[x] (0 without
\* a previous line).
C23_FillOrMixMaskBits ==
    [][/\ (r16Pc = "outer" /\ r16Pc' = "run" /\ opcode' = 2 =>
              /\ fom_mask' = (IF runCode' = 249 THEN 3 ELSE IF runCode' = 250 THEN 5 ELSE 0)
              /\ mixmask' = 0)
       /\ (opcode = 2 /\ r16Pc # "outer" /\ ~R16EmitsPixel =>
              mask' = mask /\ mixmask' = mixmask /\ inputLeft' = inputLeft)
       /\ (opcode = 2 /\ R16EmitsPixel =>
              LET k == R16Emitted - runStart IN
              /\ mixmask' = R16Bit(k % 8)
              /\ IF k % 8 = 0
                 THEN IF runCode \in {249, 250}
                      THEN mask' = (IF runCode = 249 THEN 3 ELSE 5) /\ inputLeft' = inputLeft
                      ELSE mask' \in 0..255 /\ inputLeft' = inputLeft - 1
                 ELSE mask' = mask /\ inputLeft' = inputLeft
              /\ R16PixelWritten = IF (mask' \div R16Bit(k % 8)) % 2 = 1
                                   THEN R16MixedPixel ELSE R16PlainPixel)
      ]_vars

\* a 16-pixel fill-or-mix run on a 10-pixel wide image has emitted 12 pixels:
\* it wrapped to the second row and is at bit 3 of its second mask byte
C23_Witness ==
    /\ r16Pc = "repeat" /\ opcode = 2 /\ runCode = 66 /\ runCount = 16
    /\ R16Emitted - runStart = 12 /\ prevline # NoLine
    /\ mixmask = 8 /\ mask = 170
    /\ output[line + x - 1] = Xor16(output[prevline + x - 1], mix)

\* C24: a bicolour run with decoded count N emits colour1, colour2,
\* colour1, ... starting with colour1, a pair for each unit of count, also
\* across line wraps: after p pixels of the run the count left is
\* N - p div 2 and the toggle is set exactly when p is odd; the run ends
\* after exactly 2 * N pixels with the toggle false, and the toggle is false
\* whenever an opcode is decoded.
C24_BicolourPairs ==
    [][/\ (opcode = 8 /\ r16Pc \in {"run", "repeat"} /\ r16Pc' # "done" =>
              LET p == R16Emitted - runStart IN
              /\ bicolour = (p % 2 = 1)
              /\ count = runCount - (p \div 2)
              /\ (R16EmitsPixel =>
                     R16PixelWritten = IF p % 2 = 0 THEN colour1 ELSE colour2)
              /\ (r16Pc' = "outer" => p = 2 * runCount /\ ~bicolour))
       /\ (r16Pc = "outer" => ~bicolour)
      ]_vars

\* a bicolour run of count 3 on a 3-pixel wide image has ended: 6 pixels,
\* colour1 and colour2 in turn on both rows
C24_Witness ==
    /\ r16Pc = "outer" /\ opcode = 8 /\ runCount = 3 /\ width = 3 /\ height0 = 2
    /\ R16Emitted - runStart = 6
    /\ colour1 # colour2
    /\ output = [i \in 0..5 |-> IF i \in {3, 5, 1} THEN colour1 ELSE colour2]

\* C30 as stated: when rle_16_decompress returns Ok, all width * height
\* pixels of the output have been emitted.
C30_OkMeansWholeImage ==
    r16Result = "Ok" => R16Emitted = width * height0

(***************************************************************************)
(* Properties of process_plane: deltas and run lengths                     *)
(***************************************************************************)
\* the delta the claim gives for a literal byte b
R32ClaimedDelta(b) == IF b % 2 = 0 THEN b \div 2 ELSE 0 - ((b \div 2) + 1)

\* C25: on every line after the first, each byte one code byte emits equals
\* (the byte of the line below at the same column + delta) modulo 256; the
\* delta of a literal column is b >> 1 for an even literal byte b and
\* -((b >> 1) + 1) for an odd one, for every b in 0..255 (255 gives -128),
\* and the delta of a repeat column is the delta of the last literal decoded
\* on the line (0 when the line has decoded none yet).
C25_DeltaAgainstLineBelow ==
    [][/\ (r32Pc = "header" =>
              /\ \A b \in 0..255 :
                     /\ SignedDelta(b) = R32ClaimedDelta(b)
                     /\ SignedDelta(b) \in -128..127
              /\ SignedDelta(255) = -128)
       /\ (r32Pc = "code" /\ last_line # 0 /\ indexw' > indexw =>
              LET off == PlaneOffset(plane)
                  collen == CodeLengths(input32[cursor32 + 1]).collen
                  delta(j) ==
                      IF j < collen THEN R32ClaimedDelta(input32[cursor32 + 2 + j])
                      ELSE IF collen > 0 THEN R32ClaimedDelta(input32[cursor32 + 1 + collen])
                      ELSE color
              IN \A iw \in indexw..(indexw' - 1) :
                    output32'[off + this_line + 4 * iw]
                        = (output32[off + last_line + 4 * iw] + delta(iw - indexw) + 256) % 256)
      ]_vars

\* a line above the bottom one has taken the literal 255 and then a repeat
\* run: the delta is -128 and the last column holds the byte below plus 128
C25_Witness ==
    /\ r32Pc = "code" /\ last_line # 0 /\ indexw >= 4 /\ indexw <= width32
    /\ color = -128
    /\ input32[cursor32] = 255
    /\ output32[PlaneOffset(plane) + this_line + 4 * (indexw - 1)]
           = (output32[PlaneOffset(plane) + last_line + 4 * (indexw - 1)] + 128) % 256

\* C29 as stated: process_plane never writes beyond the end of the line it
\* is decoding. After every code byte the column index is at most the width
\* (no byte went into another row), and no run ends in an access outside the
\* output buffer.
C29_RunsStayInsideTheLine ==
    /\ (r32Pc \in {"code", "done"} => indexw <= width32)
    /\ r32Result # "panic"

(***************************************************************************)
(* Properties of bin/mstsc-rs.rs: shutdown, transfers and keys             *)
(***************************************************************************)
\* C27 as stated: once the UI thread has executed shutdown on the session,
\* the reader thread performs no further guard.read (and so no further send
\* on the bitmap channel, which only the callback of a read does).
C27_NoReadAfterShutdown ==
    [][session = "shutdown" => ~RdpRead]_vars

\* C26 as stated: fast_bitmap_transfer copies a row only when the
\* destination row lies inside the framebuffer (dest_top + i < height), the
\* row span fits the framebuffer width (dest_left + count <= width) and the
\* source span lies inside the decompressed data.
C26_CopiedRowsWereValidated ==
    \A c \in copied :
        /\ bitmapEvent.dest_top + c.i < WinHeight
        /\ bitmapEvent.dest_left + c.count <= WinWidth
        /\ c.src_i + c.count <= bitmapEvent.data

\* C28 as stated: after the keyboard block of a frame, every key whose
\* latest event written is a key-down is held in that frame: a key that is no
\* longer held has been sent its key-up, also when no key is held at all.
C28_KeyUpWhenNoLongerHeld ==
    keyPc = "frame" => keysDown \subseteq keys

(***************************************************************************)
(* Properties of codec/rle.rs : termination of rle_16_decompress           *)
(***************************************************************************)
\* position in the loop nest, ordered so that every step without a consumed
\* byte, a wrap or a pixel moves down: a repeat! whose tests have failed
\* leaves to the test of while count > 0, which enters a repeat! that has a
\* pixel to write, leaves to the outer loop, or returns
R16PcRank ==
    CASE r16Pc = "repeat" /\ ~(unroll > 0 \/ RepeatUnrolledTest(count, x, width)
                                \/ RepeatTailTest(count, x, width)) -> 4
      [] r16Pc = "run" -> 3
      [] r16Pc = "repeat" -> 2
      [] r16Pc = "outer" -> 1
      [] OTHER -> 0

\* the variant of the loop nest: input bytes left, rows left, columns left
\* in the current row, position in the loop nest
R16Variant == <<inputLeft, height, width - x, R16PcRank>>

\* lexicographic order on the variants
R16VariantLess(a, b) ==
    \/ a[1] < b[1]
    \/ a[1] = b[1] /\ a[2] < b[2]
    \/ a[1] = b[1] /\ a[2] = b[2] /\ a[3] < b[3]
    \/ a[1] = b[1] /\ a[2] = b[2] /\ a[3] = b[3] /\ a[4] < b[4]

R16ReturnsError == r16Pc' = "done" /\ r16Result' \in {"RleDecode", "Io"}

\* C31: rle_16_decompress terminates for every input, width >= 0 and
\* height >= 0: every step of the loop nest decreases a variant that is
\* bounded below; each outer iteration consumes at least one input byte or
\* returns an error; each iteration of the run loop returns an error, wraps
\* to a new line with one row less, writes a pixel, or enters a repeat!
\* whose first step writes a pixel or returns an error.
C31_EveryStepDecreasesTheVariant ==
    [][/\ inputLeft >= 0 /\ height >= 0 /\ width - x >= 0
       /\ R16VariantLess(R16Variant', R16Variant)
       /\ r16Pc = "outer" /\ inputLeft > 0 =>
             inputLeft' < inputLeft \/ R16ReturnsError
       /\ r16Pc = "run" /\ count > 0 =>
             \/ R16ReturnsError
             \/ height' < height /\ x' \in {0, 1}
             \/ height' = height /\ x' = x + 1 /\ ~insertmix'
             \/ r16Pc' = "repeat" /\ RepeatTailTest(count', x', width)
       /\ r16Pc = "repeat" /\ r16Pc' = "repeat" => x' = x + 1
       /\ r16Pc = "repeat" /\ r16Pc' = "done" => r16Result' \in {"RleDecode", "Io"}
      ]_vars

\* a run on an image of width 0 has used up every row and returned its error
C31_Witness ==
    /\ r16Pc = "done" /\ r16Result = "RleDecode"
    /\ width = 0 /\ height0 = MaxHeight /\ height = 0 /\ count > 0

(***************************************************************************)
(* Properties of core/gcc.rs : responses without a required block          *)
(***************************************************************************)
\* C32: read_conference_create_response never aborts: a response without a
\* server core block or without a server network block, or with a block
\* header whose length is below 4, ends with an error value; Ok(ServerData)
\* is returned only when both blocks were decoded.
C32_MissingBlockIsErrorValue ==
    gccPc = "done" =>
        /\ gccRet.status # "panic"
        /\ gccRet.status = "Ok" => result.core.present /\ result.net.present

(***************************************************************************)
(* Properties of core/license.rs : the body-size rule of the preamble      *)
(***************************************************************************)
\* a stream that holds bMsgtype, the expected flag and wMsgSize
LicSizeDecoded == Len(licStream) >= 4 /\ licStream[2] = Version30

\* C33: a preamble whose wMsgSize is below 4 is rejected with an error value
\* (the body length wMsgSize - 4 is never computed below zero or wrapped
\* around), and for every wMsgSize >= 4 exactly wMsgSize - 4 body bytes are
\* read.
C33_ShortSizeIsErrorValue ==
    /\ licPc = "done" /\ LicSizeDecoded /\ FromU16LE(licStream, 3) < 4 =>
          licResult \in LicErrorResults
    /\ licPc # "preamble" /\ LicSizeDecoded /\ FromU16LE(licStream, 3) >= 4
          /\ Len(licStream) >= FromU16LE(licStream, 3) =>
          /\ license_message.wMsgSize = FromU16LE(licStream, 3)
          /\ Len(license_message.message) = license_message.wMsgSize - 4
          /\ licPos = license_message.wMsgSize

(***************************************************************************)
(* Properties of codec/rle.rs : the arithmetic of rgb565torgb32            *)
(***************************************************************************)
\* bit i of the 16-bit pixel v
PixelBit(v, i) == (v \div (2 ^ i)) % 2

\* the number written in bits lo..hi of v, bit lo counting 1
RECURSIVE PixelBits(_, _, _)
PixelBits(v, lo, hi) ==
    IF lo > hi THEN 0 ELSE PixelBit(v, lo) + 2 * PixelBits(v, lo + 1, hi)

\* the byte of one channel as the closure computes it: u16 arithmetic, the
\* shift, the cast
ChannelByte5(c) == AsU8(WrapU16(Scale5(c)) \div 64)
ChannelByte6(c) == AsU8(WrapU16(Scale6(c)) \div 64)

\* C34: for every 16-bit pixel v, rgb565torgb32 computes the three colour
\* bytes without 16-bit overflow and without truncation by the cast to 8
\* bits: byte 0 comes from bits 0-4, byte 1 from bits 5-10, byte 2 from bits
\* 11-15; each result lies in 0..255, grows monotonically with the channel
\* value, and maps channel value 0 to 0 and the maximal channel value (31
\* or 63) to 255.
C34_ChannelsScaleWithoutOverflow ==
    /\ rgbPc # "panic"
    /\ \A k \in 1..Len(rgbInput) :
          4 * k <= Len(rgbOutput) =>
             LET v == rgbInput[k] IN
             /\ rgbOutput[4 * k - 3] = Scale5(PixelBits(v, 0, 4)) \div 64
             /\ rgbOutput[4 * k - 2] = Scale6(PixelBits(v, 5, 10)) \div 64
             /\ rgbOutput[4 * k - 1] = Scale5(PixelBits(v, 11, 15)) \div 64
    /\ rgbPc = "extend" /\ rgbInput = <<>> =>
          /\ \A v \in 0..65535 :
                /\ Blue5(v) = PixelBits(v, 0, 4)
                /\ Green6(v) = PixelBits(v, 5, 10)
                /\ Red5(v) = PixelBits(v, 11, 15)
          /\ \A c \in 0..31 :
                /\ ~OverflowsU16(Scale5(c))
                /\ ChannelByte5(c) = Scale5(c) \div 64
                /\ ChannelByte5(c) \in 0..255
                /\ c < 31 => ChannelByte5(c) <= ChannelByte5(c + 1)
          /\ \A c \in 0..63 :
                /\ ~OverflowsU16(Scale6(c))
                /\ ChannelByte6(c) = Scale6(c) \div 64
                /\ ChannelByte6(c) \in 0..255
                /\ c < 63 => ChannelByte6(c) <= ChannelByte6(c + 1)
          /\ ChannelByte5(0) = 0 /\ ChannelByte5(31) = 255
          /\ ChannelByte6(0) = 0 /\ ChannelByte6(63) = 255

\* a white pixel and a black pixel were expanded: the maximal channel values
\* gave 255, the channel value 0 gave 0
C34_Witness ==
    /\ rgbPc = "done" /\ Len(rgbInput) >= 2
    /\ rgbInput[1] = 65535 /\ rgbInput[2] = 0
    /\ SubSeq(rgbOutput, 1, 3) = <<255, 255, 255>>
    /\ SubSeq(rgbOutput, 5, 7) = <<0, 0, 0>>

====
